---------------------------- MODULE Spec2Model ----------------------------
(***************************************************************************)
(* Model of the VESPA student coach backend (src/app.py) and of the tutor  *)
(* backend kept beside it (src/knowledge_base/app.py).  Definitions that   *)
(* model the tutor backend carry the prefix kbapp_; all others model       *)
(* src/app.py.                                                             *)
(*                                                                         *)
(* Python strings are TLA+ strings (TLC evaluates Len, \o and SubSeq on    *)
(* them), so substring tests, case folding and stripping are computed on   *)
(* the characters.  Python's None is the value None below.                 *)
(***************************************************************************)
EXTENDS Integers, Sequences, FiniteSets, TLC

VARIABLES
    grade_points_mapping_kb,   \* src/app.py: grade points table, or None
    alps_bands_aLevel_60_kb,   \* src/app.py: A-Level 60th percentile bands, or None
    alps_bands_aLevel_75_kb,   \* src/app.py: A-Level 75th percentile bands, or None
    alps_bands_aLevel_90_kb,   \* src/app.py: A-Level 90th percentile bands, or None
    alps_bands_aLevel_100_kb,  \* src/app.py: A-Level 100th percentile bands, or None
    alps_bands_btec2010_kb,    \* alpsBands_btec2010_main.json as loaded, or None
    alps_bands_btec2016_kb,    \* alpsBands_btec2016_main.json as loaded, or None
    alps_bands_cache_kb,       \* alpsBands_cache.json as loaded, or None
    alps_bands_ib_kb,          \* alpsBands_ib.json as loaded, or None
    alps_bands_preU_kb,        \* alpsBands_preU.json as loaded, or None
    alps_bands_ual_kb,         \* alpsBands_ual.json as loaded, or None
    alps_bands_wjec_kb,        \* alpsBands_wjec.json as loaded, or None
    coaching_kb,               \* coaching_questions_knowledge_base.json as loaded, or None
    COACHING_INSIGHTS_DATA,    \* coaching_insights.json as loaded, or None
    VESPA_ACTIVITIES_DATA,     \* vespa_activities_kb.json as loaded, or None
    VESPA_STATEMENTS_DATA,     \* src/app.py: vespa-statements.json as loaded, or None
    REFLECTIVE_STATEMENTS_DATA,\* the lines of "100 statements - 2023.txt", [] when not read
    OPENAI_API_KEY,            \* the key of the language model's API, or None
    knack_chat_log,            \* the chat messages saved to Knack, in order
    SCHOOL_AVERAGES_CACHE,     \* src/knowledge_base/app.py: school id -> averages and timestamp
    time_now,                  \* time.time(), in seconds
    averages_calls,            \* the calls of get_school_vespa_averages in flight, by thread
    call                       \* the last call made: its operation, inputs and result

vars == << grade_points_mapping_kb, alps_bands_aLevel_60_kb, alps_bands_aLevel_75_kb,
           alps_bands_aLevel_90_kb, alps_bands_aLevel_100_kb, alps_bands_btec2010_kb,
           alps_bands_btec2016_kb, alps_bands_cache_kb, alps_bands_ib_kb, alps_bands_preU_kb,
           alps_bands_ual_kb, alps_bands_wjec_kb, coaching_kb, COACHING_INSIGHTS_DATA,
           VESPA_ACTIVITIES_DATA, VESPA_STATEMENTS_DATA, REFLECTIVE_STATEMENTS_DATA, OPENAI_API_KEY,
           knack_chat_log, SCHOOL_AVERAGES_CACHE, time_now, averages_calls, call >>

\* what is set when the module is loaded and never written afterwards
knowledge == << grade_points_mapping_kb, alps_bands_aLevel_60_kb, alps_bands_aLevel_75_kb,
                alps_bands_aLevel_90_kb, alps_bands_aLevel_100_kb, alps_bands_btec2010_kb,
                alps_bands_btec2016_kb, alps_bands_cache_kb, alps_bands_ib_kb, alps_bands_preU_kb,
                alps_bands_ual_kb, alps_bands_wjec_kb, coaching_kb, COACHING_INSIGHTS_DATA,
                VESPA_ACTIVITIES_DATA, VESPA_STATEMENTS_DATA, REFLECTIVE_STATEMENTS_DATA, OPENAI_API_KEY >>

\* what the calls that are followed one at a time leave as it is: what the module
\* loaded, and the cache of the school averages with its clock and its calls
kbs == << knowledge, SCHOOL_AVERAGES_CACHE, time_now, averages_calls >>

\* Python's None.  No input string of the model equals it.
None == "<None>"

-----------------------------------------------------------------------------
(* Python string primitives                                                *)

\* p in s
Contains(s, p) == \E i \in 0..(Len(s) - Len(p)) : SubSeq(s, i + 1, i + Len(p)) = p

\* the letters that str.upper() changes, each with its capital
UpperCaseOf ==
    ("a" :> "A") @@ ("b" :> "B") @@ ("c" :> "C") @@ ("d" :> "D") @@ ("e" :> "E") @@ ("f" :> "F") @@ ("g" :> "G")
    @@ ("h" :> "H") @@ ("i" :> "I") @@ ("j" :> "J") @@ ("k" :> "K") @@ ("l" :> "L") @@ ("m" :> "M") @@ ("n" :> "N")
    @@ ("o" :> "O") @@ ("p" :> "P") @@ ("q" :> "Q") @@ ("r" :> "R") @@ ("s" :> "S") @@ ("t" :> "T") @@ ("u" :> "U")
    @@ ("v" :> "V") @@ ("w" :> "W") @@ ("x" :> "X") @@ ("y" :> "Y") @@ ("z" :> "Z")

\* the letters that str.lower() changes, each with its small letter
LowerCaseOf ==
    ("A" :> "a") @@ ("B" :> "b") @@ ("C" :> "c") @@ ("D" :> "d") @@ ("E" :> "e") @@ ("F" :> "f") @@ ("G" :> "g")
    @@ ("H" :> "h") @@ ("I" :> "i") @@ ("J" :> "j") @@ ("K" :> "k") @@ ("L" :> "l") @@ ("M" :> "m") @@ ("N" :> "n")
    @@ ("O" :> "o") @@ ("P" :> "p") @@ ("Q" :> "q") @@ ("R" :> "r") @@ ("S" :> "s") @@ ("T" :> "t") @@ ("U" :> "u")
    @@ ("V" :> "v") @@ ("W" :> "w") @@ ("X" :> "x") @@ ("Y" :> "y") @@ ("Z" :> "z")

UpperChar(c) == IF c \in DOMAIN UpperCaseOf THEN UpperCaseOf[c] ELSE c

LowerChar(c) == IF c \in DOMAIN LowerCaseOf THEN LowerCaseOf[c] ELSE c

RECURSIVE Upper(_)
\* s.upper()
Upper(s) ==
    IF Len(s) = 0 THEN ""
    ELSE IF Len(s) = 1 THEN UpperChar(s)
    ELSE Upper(SubSeq(s, 1, Len(s) \div 2)) \o Upper(SubSeq(s, Len(s) \div 2 + 1, Len(s)))

RECURSIVE Lower(_)
\* s.lower()
Lower(s) ==
    IF Len(s) = 0 THEN ""
    ELSE IF Len(s) = 1 THEN LowerChar(s)
    ELSE Lower(SubSeq(s, 1, Len(s) \div 2)) \o Lower(SubSeq(s, Len(s) \div 2 + 1, Len(s)))

RECURSIVE LStrip(_)
LStrip(s) == IF Len(s) > 0 /\ SubSeq(s, 1, 1) = " " THEN LStrip(SubSeq(s, 2, Len(s))) ELSE s

RECURSIVE RStrip(_)
RStrip(s) == IF Len(s) > 0 /\ SubSeq(s, Len(s), Len(s)) = " " THEN RStrip(SubSeq(s, 1, Len(s) - 1)) ELSE s

\* s.strip()
Strip(s) == RStrip(LStrip(s))

\* Python truthiness of a value that is None or a string
Truthy(x) == x # None /\ x # ""

-----------------------------------------------------------------------------
(* Qualification normalisation                                             *)

\* src/app.py normalize_qualification_type, lines 493-547: the label of the first family
\* whose marker the upper-cased type carries, "" when it carries none
qualification_family(u) ==
    IF \E x \in {"A LEVEL", "A-LEVEL", "A2", "ALEVEL"} : Contains(u, x) THEN "A Level"
    ELSE IF Contains(u, "AS LEVEL") \/ Contains(u, "AS-LEVEL") THEN "AS Level"
    ELSE IF Contains(u, "IB HL") \/ Contains(u, "INTERNATIONAL BACCALAUREATE HL") THEN "IB HL"
    ELSE IF Contains(u, "IB SL") \/ Contains(u, "INTERNATIONAL BACCALAUREATE SL") THEN "IB SL"
    ELSE IF Contains(u, "BTEC") THEN
         IF Contains(u, "EXTENDED DIPLOMA") THEN "BTEC Level 3 Extended Diploma"
         ELSE IF Contains(u, "DIPLOMA") /\ ~Contains(u, "EXTENDED") THEN "BTEC Level 3 Diploma"
         ELSE IF Contains(u, "SUBSIDIARY") THEN "BTEC Level 3 Subsidiary Diploma"
         ELSE IF Contains(u, "CERTIFICATE") THEN "BTEC Level 3 Extended Certificate"
         ELSE "BTEC Level 3"
    ELSE IF Contains(u, "PRE-U") \/ Contains(u, "PRE U") THEN
         IF Contains(u, "SHORT") THEN "Pre-U Short Course"
         ELSE "Pre-U Principal Subject"
    ELSE IF Contains(u, "UAL") THEN
         IF Contains(u, "EXTENDED") THEN "UAL Level 3 Extended Diploma"
         ELSE IF Contains(u, "DIPLOMA") THEN "UAL Level 3 Diploma"
         ELSE "UAL Level 3"
    ELSE IF Contains(u, "CACHE") THEN
         IF Contains(u, "EXTENDED") THEN "CACHE Level 3 Extended Diploma"
         ELSE IF Contains(u, "DIPLOMA") THEN "CACHE Level 3 Diploma"
         ELSE IF Contains(u, "CERTIFICATE") THEN "CACHE Level 3 Certificate"
         ELSE IF Contains(u, "AWARD") THEN "CACHE Level 3 Award"
         ELSE "CACHE Level 3"
    ELSE ""

\* a variant that hands back its upper-cased working copy when no family is recognised
normalize_returning_working_copy(exam_type_str) ==
    IF ~Truthy(exam_type_str) THEN "Unknown"
    ELSE LET qual_upper == Upper(Strip(exam_type_str))
         IN  IF qualification_family(qual_upper) # "" THEN qualification_family(qual_upper)
             ELSE qual_upper

\* a variant that hands back the type as given, blanks and all, when no family is
\* recognised
normalize_without_stripping(exam_type_str) ==
    IF ~Truthy(exam_type_str) THEN "Unknown"
    ELSE IF qualification_family(Upper(Strip(exam_type_str))) # ""
    THEN qualification_family(Upper(Strip(exam_type_str)))
    ELSE exam_type_str

\* src/app.py normalize_qualification_type: "Unknown" for no type, the family label,
\* or the stripped type itself when no family is recognised (line 549)
normalize_qualification_type(exam_type_str) ==
    IF ~Truthy(exam_type_str) THEN "Unknown"
    ELSE LET stripped == Strip(exam_type_str)
             qual_upper == Upper(stripped)
         IN  IF qualification_family(qual_upper) # "" THEN qualification_family(qual_upper)
             ELSE stripped

\* src/knowledge_base/app.py normalize_qualification_type
kbapp_normalize_qualification_type(exam_type_str) ==
    IF ~Truthy(exam_type_str) THEN "A Level"
    ELSE LET l == Lower(exam_type_str)
         IN  IF Contains(l, "a level") \/ Contains(l, "alevel") THEN "A Level"
             ELSE IF Contains(l, "as level") \/ Contains(l, "aslevel") THEN "AS Level"
             ELSE IF Contains(l, "btec") THEN
                  IF Contains(l, "extended diploma") \/ Contains(l, "ext dip") THEN "BTEC Level 3 Extended Diploma"
                  ELSE IF Contains(l, "diploma") /\ ~Contains(l, "subsidiary")
                          /\ ~Contains(l, "found") /\ ~Contains(l, "extended") THEN "BTEC Level 3 Diploma"
                  ELSE IF Contains(l, "subsidiary diploma") \/ Contains(l, "sub dip") THEN "BTEC Level 3 Subsidiary Diploma"
                  ELSE "BTEC Level 3 Extended Certificate"
             ELSE IF Contains(l, "wjec") THEN
                  IF Contains(l, "diploma") \/ Contains(l, "dip") THEN "WJEC Level 3 Diploma"
                  ELSE "WJEC Level 3 Certificate"
             ELSE IF Contains(l, "cache") THEN
                  IF Contains(l, "extended diploma") \/ Contains(l, "ext dip") THEN "CACHE Level 3 Extended Diploma"
                  ELSE IF Contains(l, "diploma") THEN "CACHE Level 3 Diploma"
                  ELSE IF Contains(l, "award") THEN "CACHE Level 3 Award"
                  ELSE "CACHE Level 3 Certificate"
             ELSE IF Contains(l, "ual") THEN
                  IF Contains(l, "extended diploma") \/ Contains(l, "ext dip") THEN "UAL Level 3 Extended Diploma"
                  ELSE "UAL Level 3 Diploma"
             ELSE IF Contains(l, "ib") THEN
                  IF Contains(l, "hl") \/ Contains(l, "higher") THEN "IB HL"
                  ELSE IF Contains(l, "sl") \/ Contains(l, "standard") THEN "IB SL"
                  ELSE "IB HL"
             ELSE IF Contains(l, "pre-u") \/ Contains(l, "preu") THEN
                  IF Contains(l, "short course") \/ Contains(l, "sc") THEN "Pre-U Short Course"
                  ELSE "Pre-U Principal Subject"
             ELSE "A Level"

-----------------------------------------------------------------------------
(* Python values other than strings                                        *)

\* None, where the value is otherwise a list or a dict
NoneObj == [none |-> TRUE]
\* a list (a sequence) or a dict (a function on its keys)
Obj(v) == [none |-> FALSE, val |-> v]

\* `not x` for x None, a list or a dict
Falsy(x) == x.none \/ DOMAIN x.val = {}

\* A JSON scalar or request value: None, a number (in tenths: 68 is 6.8) or a string
NoneV == [t |-> "none"]
NumV(n) == [t |-> "num", n |-> n]
StrV(s) == [t |-> "str", s |-> s]

IsDigit(c) == c \in {"0", "1", "2", "3", "4", "5", "6", "7", "8", "9"}

DigitVal(c) ==
    CASE c = "0" -> 0 [] c = "1" -> 1 [] c = "2" -> 2 [] c = "3" -> 3 [] c = "4" -> 4
      [] c = "5" -> 5 [] c = "6" -> 6 [] c = "7" -> 7 [] c = "8" -> 8 [] c = "9" -> 9

AllDigits(s) == \A i \in 1..Len(s) : IsDigit(SubSeq(s, i, i))

RECURSIVE DigitsVal(_)
DigitsVal(s) == IF Len(s) = 0 THEN 0
                ELSE 10 * DigitsVal(SubSeq(s, 1, Len(s) - 1)) + DigitVal(SubSeq(s, Len(s), Len(s)))

\* float(s) of a string, in tenths: surrounding blanks are ignored, then digits with
\* at most one "." and at most one digit after it (the model's strings carry no more).
\* Anything else is a ValueError: ok is FALSE.
ParseFloat(s) ==
    LET t == Strip(s)
        dots == {i \in 1..Len(t) : SubSeq(t, i, i) = "."}
    IN  IF dots = {}
        THEN IF Len(t) > 0 /\ AllDigits(t) THEN [ok |-> TRUE, v |-> 10 * DigitsVal(t)] ELSE [ok |-> FALSE]
        ELSE LET d == CHOOSE i \in dots : TRUE
                 ip == SubSeq(t, 1, d - 1)
                 fp == SubSeq(t, d + 1, Len(t))
             IN  IF Cardinality(dots) = 1 /\ AllDigits(ip) /\ AllDigits(fp)
                    /\ Len(ip) + Len(fp) > 0 /\ Len(fp) <= 1
                 THEN [ok |-> TRUE, v |-> 10 * DigitsVal(ip) + DigitsVal(fp)]
                 ELSE [ok |-> FALSE]

\* float(x): ok is FALSE where Python raises ValueError (a string that is no number)
\* or TypeError (None)
Float(x) ==
    CASE x.t = "num" -> [ok |-> TRUE, v |-> x.n]
      [] x.t = "str" -> ParseFloat(x.s)
      [] OTHER -> [ok |-> FALSE]

\* d.get(k, default) on the dict d
Get(d, k, default) == IF k \in DOMAIN d THEN d[k] ELSE default

RECURSIVE FirstKey(_, _)
\* for key in keys: if key in d: return key   ("" when none is present)
FirstKey(d, keys) ==
    IF keys = <<>> THEN ""
    ELSE IF Head(keys) \in DOMAIN d THEN Head(keys) ELSE FirstKey(d, Tail(keys))

-----------------------------------------------------------------------------
(* Grade points                                                            *)

grade_to_points_fallback ==
    [g \in {"A*", "A", "B", "C", "D", "E", "U"} |->
        CASE g = "A*" -> 56 [] g = "A" -> 48 [] g = "B" -> 40 [] g = "C" -> 32
          [] g = "D" -> 24 [] g = "E" -> 16 [] g = "U" -> 0]

\* the alias tried when the direct lookup of grade_cleaned misses ("" when there is none)
get_points_alias(grade_cleaned) ==
    CASE grade_cleaned = "DIST*" -> "D*"
      [] grade_cleaned = "DIST" -> "D"
      [] grade_cleaned = "MERIT" -> "M"
      [] grade_cleaned = "PASS" -> "P"
      [] OTHER -> ""

\* a variant that applies the A Level fallback to every qualification the table lacks
get_points_fallback_for_any(grade, qualification_type) ==
    IF ~Truthy(grade) \/ grade = "N/A" THEN 0
    ELSE LET grade_cleaned == Upper(Strip(grade))
             normalized_qual == normalize_qualification_type(qualification_type)
             mapping == grade_points_mapping_kb
         IN  IF Falsy(mapping) THEN 0
             ELSE IF normalized_qual \notin DOMAIN mapping.val \/ DOMAIN mapping.val[normalized_qual] = {}
                  THEN IF grade_cleaned \in DOMAIN grade_to_points_fallback
                       THEN grade_to_points_fallback[grade_cleaned]
                       ELSE 0
             ELSE LET qual_specific_map == mapping.val[normalized_qual]
                      alias == get_points_alias(grade_cleaned)
                  IN  IF grade_cleaned \in DOMAIN qual_specific_map THEN qual_specific_map[grade_cleaned]
                      ELSE IF alias # "" /\ alias \in DOMAIN qual_specific_map THEN qual_specific_map[alias]
                      ELSE 0

\* src/app.py get_points(grade, qualification_type), reading grade_points_mapping_kb
get_points(grade, qualification_type) ==
    IF ~Truthy(grade) \/ grade = "N/A" THEN 0
    ELSE LET grade_cleaned == Upper(Strip(grade))
             normalized_qual == normalize_qualification_type(qualification_type)
             mapping == grade_points_mapping_kb
         IN  IF Falsy(mapping) THEN 0
             ELSE IF normalized_qual \notin DOMAIN mapping.val \/ DOMAIN mapping.val[normalized_qual] = {}
                  THEN IF normalized_qual = "A Level" /\ grade_cleaned \in DOMAIN grade_to_points_fallback
                       THEN grade_to_points_fallback[grade_cleaned]
                       ELSE 0
             ELSE LET qual_specific_map == mapping.val[normalized_qual]
                      alias == get_points_alias(grade_cleaned)
                  IN  IF grade_cleaned \in DOMAIN qual_specific_map THEN qual_specific_map[grade_cleaned]
                      ELSE IF alias # "" /\ alias \in DOMAIN qual_specific_map THEN qual_specific_map[alias]
                      ELSE 0

kbapp_get_points_alias(grade_str_cleaned) ==
    CASE grade_str_cleaned = "Dist*" -> "D*"
      [] grade_str_cleaned = "Dist" -> "D"
      [] grade_str_cleaned = "Merit" -> "M"
      [] grade_str_cleaned = "Pass" -> "P"
      [] OTHER -> ""

\* src/knowledge_base/app.py get_points(normalized_qual_type, grade_str, grade_points_map_data)
kbapp_get_points(normalized_qual_type, grade_str, grade_points_map_data) ==
    IF Falsy(grade_points_map_data) THEN 0
    ELSE IF ~Truthy(normalized_qual_type) THEN 0
    ELSE LET g == IF grade_str = None THEN "U" ELSE grade_str
         IN  IF normalized_qual_type \notin DOMAIN grade_points_map_data.val
                \/ DOMAIN grade_points_map_data.val[normalized_qual_type] = {}
             THEN 0
             ELSE LET qual_map == grade_points_map_data.val[normalized_qual_type]
                      grade_str_cleaned == Strip(g)
                      alias == kbapp_get_points_alias(grade_str_cleaned)
                  IN  IF grade_str_cleaned \in DOMAIN qual_map THEN qual_map[grade_str_cleaned]
                      ELSE IF alias # "" /\ alias \in DOMAIN qual_map THEN qual_map[alias]
                      ELSE 0

-----------------------------------------------------------------------------
(* Qualification details                                                   *)

\* a variant that takes the size of an Extended Certificate from the type alone, whatever
\* the year
extract_qual_details_size_of_type_only(exam_type_str, normalized_qual_type) ==
    IF ~Truthy(exam_type_str) \/ ~Truthy(normalized_qual_type) THEN NoneObj
    ELSE LET lower_exam_type == Lower(exam_type_str) IN
         IF normalized_qual_type = "IB HL" THEN Obj([ib_level |-> "HL"])
         ELSE IF normalized_qual_type = "IB SL" THEN Obj([ib_level |-> "SL"])
         ELSE IF Contains(normalized_qual_type, "BTEC") THEN
              LET year == IF Contains(lower_exam_type, "2010") THEN "2010" ELSE "2016"
                  size == CASE normalized_qual_type = "BTEC Level 3 Extended Diploma" -> "EXTDIP"
                            [] normalized_qual_type = "BTEC Level 3 Diploma" -> "DIP"
                            [] normalized_qual_type = "BTEC Level 3 Subsidiary Diploma" -> "SUBDIP"
                            [] normalized_qual_type = "BTEC Level 3 Extended Certificate" -> "EXTCERT"
                            [] OTHER -> IF Contains(lower_exam_type, "foundation diploma") THEN "FOUNDDIP"
                                        ELSE IF Contains(lower_exam_type, "90 credit diploma")
                                                \/ Contains(lower_exam_type, "90cr") THEN "NINETY_CR"
                                        ELSE ""
              IN  IF size = "" THEN Obj([year |-> year]) ELSE Obj([year |-> year, size |-> size])
         ELSE IF Contains(normalized_qual_type, "Pre-U") THEN
              IF normalized_qual_type = "Pre-U Principal Subject" THEN Obj([pre_u_type |-> "FULL"])
              ELSE IF normalized_qual_type = "Pre-U Short Course" THEN Obj([pre_u_type |-> "SC"])
              ELSE Obj(<<>>)
         ELSE IF Contains(normalized_qual_type, "WJEC") THEN
              IF normalized_qual_type = "WJEC Level 3 Diploma" THEN Obj([wjec_size |-> "DIP"])
              ELSE Obj([wjec_size |-> "CERT"])
         ELSE NoneObj

\* src/app.py extract_qual_details: NoneObj, or Obj of a dict of details
extract_qual_details(exam_type_str, normalized_qual_type) ==
    IF ~Truthy(exam_type_str) \/ ~Truthy(normalized_qual_type) THEN NoneObj
    ELSE LET lower_exam_type == Lower(exam_type_str) IN
         IF normalized_qual_type = "IB HL" THEN Obj([ib_level |-> "HL"])
         ELSE IF normalized_qual_type = "IB SL" THEN Obj([ib_level |-> "SL"])
         ELSE IF Contains(normalized_qual_type, "BTEC") THEN
              LET year == IF Contains(lower_exam_type, "2010") THEN "2010" ELSE "2016"
                  size == CASE normalized_qual_type = "BTEC Level 3 Extended Diploma" -> "EXTDIP"
                            [] normalized_qual_type = "BTEC Level 3 Diploma" -> "DIP"
                            [] normalized_qual_type = "BTEC Level 3 Subsidiary Diploma" -> "SUBDIP"
                            [] normalized_qual_type = "BTEC Level 3 Extended Certificate" ->
                                   IF year = "2010" THEN "CERT" ELSE "EXTCERT"
                            [] OTHER -> IF Contains(lower_exam_type, "foundation diploma") THEN "FOUNDDIP"
                                        ELSE IF Contains(lower_exam_type, "90 credit diploma")
                                                \/ Contains(lower_exam_type, "90cr") THEN "NINETY_CR"
                                        ELSE ""
              IN  IF size = "" THEN Obj([year |-> year]) ELSE Obj([year |-> year, size |-> size])
         ELSE IF Contains(normalized_qual_type, "Pre-U") THEN
              IF normalized_qual_type = "Pre-U Principal Subject" THEN Obj([pre_u_type |-> "FULL"])
              ELSE IF normalized_qual_type = "Pre-U Short Course" THEN Obj([pre_u_type |-> "SC"])
              ELSE Obj(<<>>)
         ELSE IF Contains(normalized_qual_type, "WJEC") THEN
              IF normalized_qual_type = "WJEC Level 3 Diploma" THEN Obj([wjec_size |-> "DIP"])
              ELSE Obj([wjec_size |-> "CERT"])
         ELSE NoneObj

\* src/knowledge_base/app.py extract_qual_details
kbapp_extract_qual_details(exam_type_str, normalized_qual_type) ==
    IF ~Truthy(exam_type_str) \/ ~Truthy(normalized_qual_type) THEN NoneObj
    ELSE LET lower_exam_type == Lower(exam_type_str) IN
         IF normalized_qual_type = "IB HL" THEN Obj([ib_level |-> "HL"])
         ELSE IF normalized_qual_type = "IB SL" THEN Obj([ib_level |-> "SL"])
         ELSE IF Contains(normalized_qual_type, "BTEC") THEN
              LET year == IF Contains(lower_exam_type, "2010") THEN "2010" ELSE "2016"
                  size == CASE normalized_qual_type = "BTEC Level 3 Extended Diploma" -> "EXTDIP"
                            [] normalized_qual_type = "BTEC Level 3 Diploma" -> "DIP"
                            [] normalized_qual_type = "BTEC Level 3 Subsidiary Diploma" -> "SUBDIP"
                            [] normalized_qual_type = "BTEC Level 3 Extended Certificate" ->
                                   IF year = "2010" THEN "CERT" ELSE "EXTCERT"
                            [] OTHER -> IF Contains(lower_exam_type, "foundation diploma") THEN "FOUNDDIP"
                                        ELSE IF Contains(lower_exam_type, "90 credit diploma")
                                                \/ Contains(lower_exam_type, "90cr") THEN "NINETY_CR"
                                        ELSE ""
              IN  IF size = "" THEN Obj([year |-> year]) ELSE Obj([year |-> year, size |-> size])
         ELSE IF normalized_qual_type = "Pre-U Principal Subject" THEN Obj([pre_u_type |-> "FULL"])
         ELSE IF normalized_qual_type = "Pre-U Short Course" THEN Obj([pre_u_type |-> "SC"])
         ELSE IF Contains(normalized_qual_type, "WJEC") THEN
              IF normalized_qual_type = "WJEC Level 3 Diploma" THEN Obj([wjec_size |-> "DIP"])
              ELSE Obj([wjec_size |-> "CERT"])
         ELSE NoneObj

-----------------------------------------------------------------------------
(* MEG resolution.  A band is a dict from key spellings to JSON scalars     *)
(* (NoneV, NumV, StrV); a table is a list of bands.                         *)

possible_min_keys == <<"gcseMinScore", "gcseMin", "Avg GCSE score Min", "Prior Attainment Min", "lowerBound">>
possible_max_keys == <<"gcseMaxScore", "gcseMax", "Avg GCSE score Max", "Prior Attainment Max", "upperBound">>
possible_meg_keys == <<"megAspiration", "MEG Aspiration", "minimumGrade", "megGrade", "MEG">>

\* the value under the first of keys present in the band, NoneV when none is
BandValue(band_info, keys) ==
    LET key == FirstKey(band_info, keys) IN IF key = "" THEN NoneV ELSE band_info[key]

\* the grade label a band carries as a JSON scalar: its string, None for null
GradeOf(v) == IF v.t = "str" THEN v.s ELSE None

\* a variant that reads an upper bound float() rejects as no upper bound
in_band_unreadable_max_open(score, band_info) ==
    LET min_score_val == BandValue(band_info, possible_min_keys)
        max_score_val == BandValue(band_info, possible_max_keys)
        min_s == Float(min_score_val)
        max_s == Float(max_score_val)
    IN  /\ min_score_val # NoneV
        /\ min_s.ok
        /\ IF max_score_val # NoneV /\ max_s.ok
           THEN score >= min_s.v /\ score < max_s.v
           ELSE score >= min_s.v

\* src/app.py get_meg_for_prior_attainment, lines 673-697: whether the score is in the
\* band.  A bound that float() rejects skips the band (the except clause continues).
in_band(score, band_info) ==
    LET min_score_val == BandValue(band_info, possible_min_keys)
        max_score_val == BandValue(band_info, possible_max_keys)
        min_s == Float(min_score_val)
        max_s == Float(max_score_val)
    IN  /\ min_score_val # NoneV
        /\ min_s.ok
        /\ IF max_score_val # NoneV
           THEN max_s.ok /\ score >= min_s.v /\ score < max_s.v
           ELSE score >= min_s.v

\* the band's MEG grade, "N/A" when it has none of the keys
meg_aspiration_grade(band_info) ==
    LET key == FirstKey(band_info, possible_meg_keys)
    IN  IF key = "" THEN "N/A" ELSE GradeOf(band_info[key])

RECURSIVE scan_bands(_, _, _)
\* the loop over the bands, lines 650-697: the first band the score is in decides
scan_bands(score, bands, normalized_qual) ==
    IF bands = <<>> THEN <<"N/A", 0>>
    ELSE IF in_band(score, Head(bands))
         THEN <<meg_aspiration_grade(Head(bands)), get_points(meg_aspiration_grade(Head(bands)), normalized_qual)>>
         ELSE scan_bands(score, Tail(bands), normalized_qual)

\* a variant that takes the 60th percentile table for a percentile it does not support
select_table_unsupported_to_60th(normalized_qual, percentile) ==
    IF normalized_qual = "A Level"
    THEN CASE percentile = 60 -> alps_bands_aLevel_60_kb
           [] percentile = 75 -> alps_bands_aLevel_75_kb
           [] percentile = 90 -> alps_bands_aLevel_90_kb
           [] percentile = 100 -> alps_bands_aLevel_100_kb
           [] OTHER -> alps_bands_aLevel_60_kb
    ELSE NoneObj

\* lines 616-628: the table for the qualification and the percentile
select_table(normalized_qual, percentile) ==
    IF normalized_qual = "A Level"
    THEN CASE percentile = 60 -> alps_bands_aLevel_60_kb
           [] percentile = 75 -> alps_bands_aLevel_75_kb
           [] percentile = 90 -> alps_bands_aLevel_90_kb
           [] percentile = 100 -> alps_bands_aLevel_100_kb
           [] OTHER -> alps_bands_aLevel_75_kb
    ELSE NoneObj

\* src/app.py get_meg_for_prior_attainment: <<MEG grade, MEG points>>
get_meg_for_prior_attainment(prior_attainment_score, qualification_type, percentile) ==
    IF prior_attainment_score = NoneV THEN <<"N/A", 0>>
    ELSE LET score == Float(prior_attainment_score) IN
         IF ~score.ok THEN <<"N/A", 0>>
         ELSE LET normalized_qual == normalize_qualification_type(qualification_type)
                  benchmark_table_data == select_table(normalized_qual, percentile)
              IN  IF Falsy(benchmark_table_data) THEN <<"N/A", 0>>
                  ELSE scan_bands(score.v, benchmark_table_data.val, normalized_qual)

kbapp_possible_min_keys == <<"gcseMinScore", "gcseMin", "Avg GCSE score Min", "Prior Attainment Min">>
kbapp_possible_max_keys == <<"gcseMaxScore", "gcseMax", "Avg GCSE score Max", "Prior Attainment Max">>

\* band_info.get(k1, band_info.get(k2, "N/A")), as a grade label
Get2(band_info, k1, k2) ==
    IF k1 \in DOMAIN band_info THEN GradeOf(band_info[k1])
    ELSE IF k2 \in DOMAIN band_info THEN GradeOf(band_info[k2])
    ELSE "N/A"

\* src/knowledge_base/app.py get_meg_for_prior_attainment, lines 889-936: the band's MEG
\* grade, under the key the qualification type and its details select
kbapp_meg_aspiration(band_info, normalized_qualification_type, qual_details) ==
    LET q == normalized_qualification_type
        has_details == ~Falsy(qual_details)
        d == IF qual_details.none THEN <<>> ELSE qual_details.val
    IN  IF q \in {"A Level", "AS Level"} THEN Get2(band_info, "megAspiration", "MEG Aspiration")
        ELSE IF q = "IB HL" THEN Get2(band_info, "hlMeg", "HL MEG Aspiration")
        ELSE IF q = "IB SL" THEN Get2(band_info, "slMeg", "SL MEG Aspiration")
        ELSE IF q = "Pre-U Principal Subject" THEN Get2(band_info, "fullMeg", "Principal Subject MEG")
        ELSE IF q = "Pre-U Short Course" THEN Get2(band_info, "scMeg", "Short Course MEG")
        ELSE IF Contains(q, "BTEC") /\ has_details THEN
             LET btec_year == Get(d, "year", "2016")
                 btec_size == Get(d, "size", None)
             IN  IF btec_year = "2016" THEN
                      CASE btec_size = "EXTCERT" -> Get2(band_info, "extCertMeg", "Ext Cert MEG")
                        [] btec_size = "DIP" -> Get2(band_info, "dipMeg", "Diploma MEG")
                        [] btec_size = "EXTDIP" -> Get2(band_info, "extDipMeg", "Ext Dip MEG")
                        [] btec_size = "CERT" -> Get2(band_info, "certMeg", "Certificate MEG")
                        [] btec_size = "FOUNDDIP" -> Get2(band_info, "foundDipMeg", "Found Dip MEG")
                        [] OTHER -> "N/A"
                 ELSE IF btec_year = "2010" THEN
                      CASE btec_size = "CERT" -> Get2(band_info, "certMEG", "certMEG")
                        [] btec_size = "SUBDIP" -> Get2(band_info, "subDipMEG", "subDipMEG")
                        [] btec_size = "NINETY_CR" -> Get2(band_info, "ninetyCrMEG", "ninetyCrMEG")
                        [] btec_size = "DIP" -> Get2(band_info, "dipMEG", "dipMEG")
                        [] btec_size = "EXTDIP" -> Get2(band_info, "extDipMEG", "extDipMEG")
                        [] OTHER -> "N/A"
                 ELSE "N/A"
        ELSE IF Contains(q, "UAL") THEN Get2(band_info, "megGrade", "MEG")
        ELSE IF Contains(q, "WJEC") /\ has_details THEN
             LET wjec_size == Get(d, "wjec_size", "CERT")
             IN  CASE wjec_size = "CERT" -> Get2(band_info, "certMeg", "Certificate MEG")
                   [] wjec_size = "DIP" -> Get2(band_info, "dipMegAsp", "Diploma MEG")
                   [] OTHER -> "N/A"
        ELSE IF Contains(q, "CACHE") THEN Get2(band_info, "megGrade", "MEG Aspiration")
        ELSE IF "megAspiration" \in DOMAIN band_info THEN GradeOf(band_info["megAspiration"])
        ELSE Get2(band_info, "megGrade", "MEG")

RECURSIVE kbapp_scan_bands(_, _, _, _)
\* lines 873-944: the loop over the bands.  Only a number counts as a lower bound; an
\* upper bound that float() rejects ends the whole lookup with "N/A" (the except clause
\* encloses the loop).
kbapp_scan_bands(score, bands, normalized_qualification_type, qual_details) ==
    IF bands = <<>> THEN "N/A"
    ELSE LET band_info == Head(bands)
             min_score_val == BandValue(band_info, kbapp_possible_min_keys)
             max_score_val == BandValue(band_info, kbapp_possible_max_keys)
             rest == kbapp_scan_bands(score, Tail(bands), normalized_qualification_type, qual_details)
         IN  IF min_score_val.t = "num" /\ score >= min_score_val.n
             THEN IF max_score_val = NoneV
                  THEN kbapp_meg_aspiration(band_info, normalized_qualification_type, qual_details)
                  ELSE IF ~Float(max_score_val).ok THEN "N/A"
                  ELSE IF score < Float(max_score_val).v
                       THEN kbapp_meg_aspiration(band_info, normalized_qualification_type, qual_details)
                       ELSE rest
             ELSE rest

\* src/knowledge_base/app.py get_meg_for_prior_attainment: the MEG grade
kbapp_get_meg_for_prior_attainment(prior_attainment_score, benchmark_table_data, normalized_qualification_type, qual_details) ==
    IF benchmark_table_data.none \/ prior_attainment_score = NoneV THEN "N/A"
    ELSE LET score == Float(prior_attainment_score) IN
         IF ~score.ok THEN "N/A"
         ELSE kbapp_scan_bands(score.v, benchmark_table_data.val, normalized_qualification_type, qual_details)

-----------------------------------------------------------------------------
(* More Python string and list primitives, for the chat turn                *)

Min(S) == CHOOSE x \in S : \A y \in S : x <= y

\* s[:n]
Take(s, n) == SubSeq(s, 1, IF Len(s) < n THEN Len(s) ELSE n)

\* s.startswith(p)
StartsWith(s, p) == Len(p) <= Len(s) /\ SubSeq(s, 1, Len(p)) = p

\* any(p in s for p in ps)
ContainsAny(s, ps) == \E p \in ps : Contains(s, p)

RECURSIVE Split(_)
\* s.split(): the words of s, separated by runs of blanks
Split(s) ==
    LET t == LStrip(s)
        blanks == {i \in 1..Len(t) : SubSeq(t, i, i) = " "}
        e == IF blanks = {} THEN Len(t) + 1 ELSE Min(blanks)
    IN  IF t = "" THEN <<>>
        ELSE <<SubSeq(t, 1, e - 1)>> \o Split(SubSeq(t, e + 1, Len(t)))

\* s.split(' ')[0]
FirstField(s) ==
    LET blanks == {i \in 1..Len(s) : SubSeq(s, i, i) = " "}
    IN  IF blanks = {} THEN s ELSE SubSeq(s, 1, Min(blanks) - 1)

RECURSIVE Remove(_, _)
\* s.replace(old, '')
Remove(s, old) ==
    IF Len(s) < Len(old) THEN s
    ELSE IF SubSeq(s, 1, Len(old)) = old THEN Remove(SubSeq(s, Len(old) + 1, Len(s)), old)
    ELSE SubSeq(s, 1, 1) \o Remove(SubSeq(s, 2, Len(s)), old)

RECURSIVE RemoveEach(_, _)
\* for old in olds: s = s.replace(old, '')
RemoveEach(s, olds) ==
    IF olds = <<>> THEN s ELSE RemoveEach(Remove(s, Head(olds)), Tail(olds))

RECURSIVE Join(_, _)
\* sep.join(strs)
Join(strs, sep) ==
    IF strs = <<>> THEN ""
    ELSE IF Len(strs) = 1 THEN strs[1]
    ELSE strs[1] \o sep \o Join(Tail(strs), sep)

\* str(strs) of a list of strings: "['a', 'b']"
StrOfList(strs) == "[" \o Join([i \in 1..Len(strs) |-> "'" \o strs[i] \o "'"], ", ") \o "]"

\* s.capitalize()
Capitalize(s) == IF s = "" THEN "" ELSE Upper(SubSeq(s, 1, 1)) \o Lower(SubSeq(s, 2, Len(s)))

RECURSIVE Flatten(_)
\* the concatenation of a list of lists
Flatten(lists) == IF lists = <<>> THEN <<>> ELSE Head(lists) \o Flatten(Tail(lists))

\* [x for x in items if keep[i]], keep being the set of positions kept
Keep(items, keep) == Flatten([i \in 1..Len(items) |-> IF i \in keep THEN <<items[i]>> ELSE <<>>])

\* str(v) of a JSON number held in tenths: 70 is 7, 68 is 6.8
StrOfNum(n) == IF n % 10 = 0 THEN ToString(n \div 10) ELSE ToString(n \div 10) \o "." \o ToString(n % 10)

\* f"{d:.1f}" of a non-negative number held in tenths
OneDecimal(n) == ToString(n \div 10) \o "." \o ToString(n % 10)

\* f"{v}" of a JSON scalar that is present
StrOfScalar(v) == CASE v.t = "num" -> StrOfNum(v.n) [] v.t = "str" -> v.s [] OTHER -> "None"

\* f"{x}" of a value that is None or a string
StrOf(x) == IF x = None THEN "None" ELSE x

\* x if it is a string, the default when the key is absent
OrDefault(x, default) == IF x = None THEN default ELSE x

\* one entry of rag_context_parts: the text appended, and the kind of thing it is
Part(kind, text) == [kind |-> kind, text |-> text]

-----------------------------------------------------------------------------
(* chat_turn of src/app.py: the student's data summary                     *)
(*                                                                         *)
(* initial_ai_context is NoneObj, Obj(<<>>) for {}, or Obj of a record.  A  *)
(* key the payload lacks is None (a string), NoneV (a number) or NoneObj (a *)
(* list or dict) in the record.  Dicts whose order of iteration shows in    *)
(* the output are lists of entries: vespa_profile, reflections.             *)

\* src/app.py get_student_educational_level
get_student_educational_level(student_level_raw) ==
    IF ~Truthy(student_level_raw) \/ student_level_raw = "N/A" THEN "Level 3"
    ELSE LET level_lower == Lower(student_level_raw)
         IN  IF ContainsAny(level_lower, {"year 12", "year 13", "a-level", "level 3", "l3", "sixth form", "a level"})
             THEN "Level 3"
             ELSE IF ContainsAny(level_lower, {"year 10", "year 11", "gcse", "level 2", "l2"})
             THEN "Level 2"
             ELSE "Level 3"

\* el_data.get('score_1_to_10', 'N/A') and el_data.get('score_profile_text', 'N/A'), as text
ScoreText(el_data) == IF el_data.score_1_to_10 = NoneV THEN "N/A" ELSE StrOfScalar(el_data.score_1_to_10)
ProfileText(el_data) == OrDefault(el_data.score_profile_text, "N/A")

\* lines 1509-1513
vespa_scores_parts(student_vespa_profile) ==
    IF student_vespa_profile = <<>> THEN <<>>
    ELSE <<Part("student_data", "\nMy VESPA Scores:")>> \o
         Flatten([i \in 1..Len(student_vespa_profile) |->
            LET el_data == student_vespa_profile[i]
            IN  IF el_data.el # "Overall"
                THEN <<Part("student_data", " - " \o el_data.el \o ": " \o ScoreText(el_data)
                                               \o "/10 (Profile: '" \o ProfileText(el_data) \o "')")>>
                ELSE <<>>])

\* lines 1515-1528
school_averages_parts(school_avgs_from_context, student_vespa_profile) ==
    IF Falsy(school_avgs_from_context) \/ student_vespa_profile = <<>> THEN <<>>
    ELSE <<Part("student_data", "\nHow I Compare to School Averages:")>> \o
         Flatten([i \in 1..Len(student_vespa_profile) |->
            LET el_data == student_vespa_profile[i]
                el == el_data.el
                my_score == Float(el_data.score_1_to_10)
                school_avg == IF el \in DOMAIN school_avgs_from_context.val
                              THEN Float(school_avgs_from_context.val[el]) ELSE [ok |-> FALSE]
            IN  IF el # "Overall" /\ el \in DOMAIN school_avgs_from_context.val
                   /\ el_data.score_1_to_10 # NoneV /\ my_score.ok /\ school_avg.ok
                THEN IF my_score.v > school_avg.v
                     THEN <<Part("student_data", " - " \o el \o ": I'm " \o OneDecimal(my_score.v - school_avg.v)
                                                    \o " points above school average")>>
                     ELSE IF my_score.v < school_avg.v
                     THEN <<Part("student_data", " - " \o el \o ": I'm " \o OneDecimal(school_avg.v - my_score.v)
                                                    \o " points below school average")>>
                     ELSE <<Part("student_data", " - " \o el \o ": I'm at the school average")>>
                ELSE <<>>])

\* lines 1530-1537
academic_profile_parts(academic_data_from_context) ==
    IF Falsy(academic_data_from_context) THEN <<>>
    ELSE LET subjects == Take(academic_data_from_context.val, 3) IN
         <<Part("student_data", "\nMy Academic Profile (first few subjects):")>> \o
         Flatten([i \in 1..Len(subjects) |->
            LET subject == subjects[i]
            IN  IF Truthy(subject.subject) /\ subject.subject # "N/A"
                   /\ ~StartsWith(Lower(subject.subject), "academic profile not found")
                THEN <<Part("student_data",
                            " - " \o subject.subject \o ": Current=" \o OrDefault(subject.currentGrade, "N/A")
                                  \o ", Target=" \o OrDefault(subject.targetGrade, "N/A")
                                  \o (IF Truthy(subject.standard_meg) THEN ", MEG=" \o subject.standard_meg ELSE ""))>>
                ELSE <<>>])

\* lines 1539-1541
prior_attainment_parts(meg_data_from_context) ==
    IF Falsy(meg_data_from_context) THEN <<>>
    ELSE LET score == meg_data_from_context.val.prior_attainment_score
         IN  IF score = NoneV \/ score = NumV(0) \/ score = StrV("") THEN <<>>
             ELSE <<Part("student_data", "\nMy Prior Attainment Score: " \o StrOfScalar(score) \o " (influences MEGs)")>>

\* lines 1543-1552: entries are <<key, value>>, the value None or a string
reflections_parts(reflections_from_context) ==
    IF Falsy(reflections_from_context) THEN <<>>
    ELSE LET entries == reflections_from_context.val
             told == {i \in 1..Len(entries) :
                         LET value == entries[i][2]
                         IN  Truthy(value) /\ Strip(value) # "" /\ Lower(value) \notin {"not specified", "n/a"}}
         IN  IF told = {} THEN <<>>
             ELSE <<Part("student_data", "\nMy Recent Reflections & Goals (from initial context):")>> \o
                  Flatten([i \in 1..Len(entries) |->
                     IF i \notin told THEN <<>>
                     ELSE IF Contains(entries[i][1], "rrc")
                     THEN <<Part("student_data", " - Reflection: " \o Take(entries[i][2], 150) \o "...")>>
                     ELSE IF Contains(entries[i][1], "goal")
                     THEN <<Part("student_data", " - Goal: " \o Take(entries[i][2], 150) \o "...")>>
                     ELSE <<>>])

\* the lines of one list of questionnaire highlights, lines 1560 and 1563; the bullet
\* of the source is written "*"
highlight_items(items) ==
    [i \in 1..Len(Take(items, 2)) |->
        Part("student_data", "  * " \o StrOf(items[i].category) \o ": \"" \o Take(OrDefault(items[i].text, ""), 80) \o "...\"")]

\* lines 1554-1563
highlights_parts(highlights_from_context) ==
    IF Falsy(highlights_from_context) THEN <<>>
    ELSE LET top_3 == highlights_from_context.val.top_3
             bottom_3 == highlights_from_context.val.bottom_3
         IN  IF top_3 = <<>> /\ bottom_3 = <<>> THEN <<>>
             ELSE <<Part("student_data", "\nMy Questionnaire Insights (from initial context):")>> \o
                  (IF top_3 # <<>>
                   THEN <<Part("student_data", " Strengths (I strongly agreed with):")>> \o highlight_items(top_3)
                   ELSE <<>>) \o
                  (IF bottom_3 # <<>>
                   THEN <<Part("student_data", " Areas to consider (I disagreed with):")>> \o highlight_items(bottom_3)
                   ELSE <<>>)

\* lines 1565-1568
suggested_goals_parts(goals) ==
    IF Falsy(goals) \/ ~(\E i \in 1..Len(goals.val) : Strip(goals.val[i]) # "") THEN <<>>
    ELSE LET first == Take(goals.val, 2)
         IN  <<Part("student_data", "\nPreviously suggested goals for me (from initial context): "
                        \o Join(Keep(first, {i \in 1..Len(first) : Strip(first[i]) # ""}), "; "))>>

\* lines 1570-1572
questionnaire_summary_parts(q_interp_from_context) ==
    IF Truthy(q_interp_from_context) /\ Len(q_interp_from_context) > 50
    THEN <<Part("student_data", "\nMy Questionnaire Analysis Summary (from initial context): "
                    \o Take(q_interp_from_context, 200) \o "...")>>
    ELSE <<>>

\* lines 1500-1574: section 1 of the context
student_data_parts(initial_ai_context) ==
    IF Falsy(initial_ai_context)
    THEN <<Part("student_data_note",
                "\n(Note: Detailed student data summary from initial context is not available for this turn.)")>>
    ELSE LET c == initial_ai_context.val
             llm_insights_from_context == c.llm_generated_insights
         IN  <<Part("student_data", "\n--- About Me (Student's Data Summary from Initial Context) ---")>> \o
             (IF Truthy(llm_insights_from_context.student_overview_summary)
              THEN <<Part("student_data", "My Overall AI Snapshot: " \o llm_insights_from_context.student_overview_summary)>>
              ELSE <<>>) \o
             vespa_scores_parts(c.vespa_profile) \o
             school_averages_parts(c.school_vespa_averages, c.vespa_profile) \o
             academic_profile_parts(c.academic_profile_summary) \o
             prior_attainment_parts(c.academic_megs) \o
             reflections_parts(c.student_reflections_and_goals) \o
             highlights_parts(c.object29_question_highlights) \o
             suggested_goals_parts(llm_insights_from_context.suggested_student_goals) \o
             questionnaire_summary_parts(llm_insights_from_context.questionnaire_interpretation_and_reflection_summary)

-----------------------------------------------------------------------------
(* chat_turn of src/app.py: retrieval from the knowledge bases             *)

\* lines 1488-1491
user_asking_for_activity(current_user_message) ==
    ContainsAny(Lower(current_user_message),
                {"suggest an activity", "recommend an activity", "what activity", "any activities",
                 "activity suggestion", "activity recommendation", "yes please suggest", "yes, suggest"})

\* line 1578
is_focus_area_query(current_user_message) ==
    Contains(Lower(current_user_message), "what area to focus on") \/ Contains(Lower(current_user_message), "focus area")

\* lines 1583-1589, in the order of the dict
keyword_to_element_map ==
    << <<{"vision", "goal", "future", "career", "motivation", "purpose", "direction", "aspiration", "dream",
          "ambition", "achieve", "aims", "objectives"}, "Vision">>,
       <<{"effort", "hard work", "procrastination", "trying", "persevere", "lazy", "energy", "work ethic",
          "dedication", "commitment"}, "Effort">>,
       <<{"systems", "organization", "plan", "notes", "timetable", "deadline", "homework", "complete",
          "time management", "schedule", "diary", "planner", "organised", "organize", "structure", "routine"}, "Systems">>,
       <<{"practice", "revision", "revise", "exam prep", "test myself", "study", "memory", "technique", "method",
          "preparation", "learning", "highlighting", "note-taking", "flashcards", "past papers", "past paper",
          "exam paper", "mock exam", "question practice", "testing"}, "Practice">>,
       <<{"attitude", "mindset", "stress", "pressure", "confidence", "difficult", "anxiety", "worry", "belief",
          "resilience", "positive", "negative"}, "Attitude">> >>

\* lines 1580-1603: the element of the first entry one of whose keywords the query carries
inferred_vespa_element(current_user_message) ==
    IF is_focus_area_query(current_user_message) THEN None
    ELSE LET query_lower == Lower(current_user_message)
             hits == {i \in 1..Len(keyword_to_element_map) : ContainsAny(query_lower, keyword_to_element_map[i][1])}
         IN  IF hits = {} THEN None ELSE keyword_to_element_map[Min(hits)][2]

\* lines 1609 and 1693
mentions_revision_or_notes(current_user_message) ==
    ContainsAny(Lower(current_user_message), {"revis", "highlight", "note"})

RECURSIVE statements_by_category_unbounded(_, _, _, _)
\* a variant that goes on filling after the fourth statement
statements_by_category_unbounded(vespa_statements_list, current_user_message, inferred, found) ==
    IF vespa_statements_list = <<>> THEN found
    ELSE LET statement_obj == Head(vespa_statements_list)
             statement_category == Lower(statement_obj.category)
             matches == IF Truthy(inferred)
                        THEN statement_category = Lower(inferred)
                        ELSE \E i \in 1..Len(statement_obj.keywords) :
                                 Contains(Lower(current_user_message), statement_obj.keywords[i])
         IN  statements_by_category_unbounded(Tail(vespa_statements_list), current_user_message, inferred,
                 IF matches
                 THEN Append(found, [element |-> Capitalize(statement_category),
                                     type |-> IF Len(found) < 2 THEN "positive" ELSE "negative",
                                     text |-> statement_obj.statement, id |-> None])
                 ELSE found)

RECURSIVE statements_by_category(_, _, _, _)
\* lines 1620-1632: fill up to four statements, by the inferred element's category or,
\* when no element is inferred, by the statement's keywords
statements_by_category(vespa_statements_list, current_user_message, inferred, found) ==
    IF vespa_statements_list = <<>> \/ Len(found) >= 4 THEN found
    ELSE LET statement_obj == Head(vespa_statements_list)
             statement_category == Lower(statement_obj.category)
             matches == IF Truthy(inferred)
                        THEN statement_category = Lower(inferred)
                        ELSE \E i \in 1..Len(statement_obj.keywords) :
                                 Contains(Lower(current_user_message), statement_obj.keywords[i])
         IN  statements_by_category(Tail(vespa_statements_list), current_user_message, inferred,
                 IF matches
                 THEN Append(found, [element |-> Capitalize(statement_category),
                                     type |-> IF Len(found) < 2 THEN "positive" ELSE "negative",
                                     text |-> statement_obj.statement, id |-> None])
                 ELSE found)

\* lines 1605-1632: relevant_vespa_statements
relevant_vespa_statements(current_user_message, inferred) ==
    IF Falsy(VESPA_STATEMENTS_DATA) THEN <<>>
    ELSE LET vespa_statements_list == VESPA_STATEMENTS_DATA.val.vespa_statements.statements
             by_id == IF mentions_revision_or_notes(current_user_message)
                      THEN Take(Keep(vespa_statements_list,
                                     {i \in 1..Len(vespa_statements_list) :
                                         vespa_statements_list[i].id \in {"P10", "P12", "P18", "P20"}}), 4)
                      ELSE <<>>
         IN  IF vespa_statements_list = <<>> THEN <<>>
             ELSE statements_by_category(vespa_statements_list, current_user_message, inferred,
                      [i \in 1..Len(by_id) |-> [element |-> "Practice", type |-> "positive",
                                                 text |-> by_id[i].statement, id |-> by_id[i].id]])

\* lines 1634-1643; the tick and the cross of the source are written "+" and "x"
statements_parts(statements) ==
    IF statements = <<>> THEN <<>>
    ELSE <<Part("statements_header", "\n--- VESPA Framework Perspectives (General Principles) ---")>> \o
         Flatten([i \in 1..Len(statements) |->
            (IF i = 1 \/ statements[i].element # statements[i - 1].element
             THEN <<Part("statements_element", "\nOn " \o statements[i].element \o ":")>>
             ELSE <<>>) \o
            <<Part("statement",
                   "  " \o (IF statements[i].type = "positive" THEN "+ Effective approaches often involve..."
                            ELSE "x Less effective approaches might include...")
                        \o " " \o statements[i].text)>>]) \o
         <<Part("statements_footer",
                "\n(Use these general VESPA perspectives to understand common patterns and guide your questions subtly.)")>>

revision_related_keywords ==
    {"active", "passive", "retrieval", "testing", "practice", "recall", "memory", "revision",
     "study strategies", "notes", "cornell"}

\* lines 1652-1672: relevance_score_insight
insight_relevance(insight, current_user_message, inferred) ==
    LET insight_name == Lower(insight.name)
        insight_summary == Lower(insight.summary)
        insight_tags == [i \in 1..Len(insight.tags) |-> Lower(insight.tags[i])]
        tag_set == {insight_tags[i] : i \in 1..Len(insight_tags)}
        words == Split(Lower(current_user_message))
        insight_all_text_corpus == insight_name \o " " \o insight_summary \o " " \o Join(insight_tags, " ")
    IN  3 * Cardinality({k \in revision_related_keywords :
                            Contains(insight_name, k) \/ Contains(insight_summary, k) \/ k \in tag_set})
        + 2 * Cardinality({i \in 1..Len(words) : Len(words[i]) > 3 /\ Contains(insight_all_text_corpus, words[i])})
        + (IF Truthy(inferred) /\ (Lower(inferred) \in tag_set \/ Contains(insight_name, Lower(inferred))
                                     \/ Contains(insight_summary, Lower(inferred)))
           THEN 3 ELSE 0)

RECURSIVE sort_by_relevance_ties_reversed(_)
\* a variant that is not stable: sorted ascending and then turned round, so entries of
\* equal relevance come out in the opposite of the order they had
sort_by_relevance_ties_reversed(scored) ==
    IF scored = <<>> THEN <<>>
    ELSE LET first == CHOOSE i \in 1..Len(scored) :
                          /\ \A j \in 1..Len(scored) : scored[j].relevance <= scored[i].relevance
                          /\ \A j \in (i + 1)..Len(scored) : scored[j].relevance < scored[i].relevance
         IN  <<scored[first]>> \o sort_by_relevance_ties_reversed(Keep(scored, (1..Len(scored)) \ {first}))

RECURSIVE sort_by_relevance_reversed(_)
\* list.sort(key=relevance, reverse=True): by relevance descending, and stable, so
\* entries of equal relevance keep the order they had
sort_by_relevance_reversed(scored) ==
    IF scored = <<>> THEN <<>>
    ELSE LET first == CHOOSE i \in 1..Len(scored) :
                          /\ \A j \in 1..Len(scored) : scored[j].relevance <= scored[i].relevance
                          /\ \A j \in 1..(i - 1) : scored[j].relevance < scored[i].relevance
         IN  <<scored[first]>> \o sort_by_relevance_reversed(Keep(scored, (1..Len(scored)) \ {first}))

\* lines 1645-1680: temp_insights_with_scores after its sort
temp_insights_with_scores(current_user_message, inferred) ==
    IF Falsy(COACHING_INSIGHTS_DATA) THEN <<>>
    ELSE LET insights == COACHING_INSIGHTS_DATA.val
             scored == [i \in 1..Len(insights) |->
                           [name |-> insights[i].name, summary |-> insights[i].summary,
                            key_points |-> Take(insights[i].key_points, 3),
                            relevance |-> insight_relevance(insights[i], current_user_message, inferred)]]
         IN  sort_by_relevance_reversed(Keep(scored, {i \in 1..Len(scored) : scored[i].relevance > 1}))

\* lines 1683-1691
insights_parts(insights) ==
    IF insights = <<>> THEN <<>>
    ELSE <<Part("insights_header", "\n--- Relevant Coaching Insights & Research (For Your Inspiration) ---")>> \o
         Flatten([i \in 1..Len(insights) |->
            <<Part("insight", "\nInsight: " \o insights[i].name),
              Part("insight_summary", "Summary: " \o insights[i].summary)>> \o
            (IF insights[i].key_points # <<>>
             THEN <<Part("insight_points", "Key ideas to consider for coaching:")>> \o
                  [j \in 1..Len(insights[i].key_points) |-> Part("insight_points", "  * " \o insights[i].key_points[j])]
             ELSE <<>>)]) \o
         <<Part("insights_footer",
                "\n(Subtly weave these research-backed ideas into your conversation and questions, don't quote them directly.)")>>

\* lines 1693-1697
critical_note_parts(current_user_message) ==
    IF mentions_revision_or_notes(current_user_message)
    THEN <<Part("critical_note", "\n--- CRITICAL COACHING NOTE: Active vs Passive Learning ---"),
           Part("critical_note", "The student may be discussing highlighting or simple note-taking. These are often PASSIVE strategies. Research strongly indicates ACTIVE strategies are far more effective."),
           Part("critical_note", "ACTIVE strategies include: Self-testing, retrieval practice, teaching content to others, past paper practice, creating & answering questions, spaced repetition, interleaving, creating concept maps or Cornell notes from memory."),
           Part("critical_note", "GENTLY explore their current methods and guide them towards discovering more active and effective techniques through questioning. Don't preach, help them find better ways.")>>
    ELSE <<>>

-----------------------------------------------------------------------------
(* chat_turn of src/app.py: coaching questions and activities              *)

\* the entry of the profile for one element, as student_vespa_profile[el]; NoneObj when absent
ProfileOf(student_vespa_profile, el) ==
    LET at == {i \in 1..Len(student_vespa_profile) : student_vespa_profile[i].el = el}
    IN  IF at = {} THEN NoneObj ELSE Obj(student_vespa_profile[Min(at)])

\* lines 1703-1710: the opening thought
framing_parts(student_vespa_profile) ==
    LET texts == Keep(student_vespa_profile,
                      {i \in 1..Len(student_vespa_profile) : ProfileText(student_vespa_profile[i]) # "N/A"})
        low_score_count_for_framing == Cardinality({i \in 1..Len(texts) : ProfileText(texts[i]) \in {"Low", "Very Low"}})
        statements == coaching_kb.val.conditionalFramingStatements
        lows == {i \in 1..Len(statements) : statements[i].id = "low_4_or_5_scores"}
        framing_statement_to_use_rag ==
            IF low_score_count_for_framing >= 4 /\ Len(texts) = 5 /\ lows # {}
            THEN statements[Min(lows)].statement
            ELSE statements[1].statement
    IN  IF framing_statement_to_use_rag # ""
        THEN <<Part("framing", "\nCoach's Opening Thought (General Framing): " \o framing_statement_to_use_rag)>>
        ELSE <<>>

RECURSIVE lowest_element(_, _, _)
\* lines 1717-1727: the first element of the strictly lowest score, "Overall" and
\* unreadable scores left out; an absent score counts as 10
lowest_element(student_vespa_profile, lowest_score_val, lowest_element_name) ==
    IF student_vespa_profile = <<>> THEN lowest_element_name
    ELSE LET el_details == Head(student_vespa_profile)
             current_score == IF el_details.score_1_to_10 = NoneV THEN [ok |-> TRUE, v |-> 100]
                              ELSE Float(el_details.score_1_to_10)
         IN  IF el_details.el # "Overall" /\ current_score.ok /\ current_score.v < lowest_score_val
             THEN lowest_element(Tail(student_vespa_profile), current_score.v, el_details.el)
             ELSE lowest_element(Tail(student_vespa_profile), lowest_score_val, lowest_element_name)

\* lines 1712-1742: target_vespa_element_for_rag and target_score_category_for_rag
rag_target(current_user_message, student_vespa_profile, inferred) ==
    IF is_focus_area_query(current_user_message)
    THEN LET lowest_element_name == lowest_element(student_vespa_profile, 110, None)
         IN  IF Truthy(lowest_element_name)
             THEN [element |-> lowest_element_name,
                   category |-> ProfileText(ProfileOf(student_vespa_profile, lowest_element_name).val)]
             ELSE [element |-> None, category |-> None]
    ELSE IF Truthy(inferred)
    THEN [element |-> inferred,
          category |-> IF ProfileOf(student_vespa_profile, inferred).none THEN "Medium"
                       ELSE ProfileText(ProfileOf(student_vespa_profile, inferred).val)]
    ELSE [element |-> None, category |-> None]

\* line 1731
focus_parts(current_user_message, target) ==
    IF is_focus_area_query(current_user_message) /\ Truthy(target.element)
    THEN <<Part("focus", "\nStudent wants to focus on an area. Their lowest VESPA element is '" \o target.element
                            \o "' (Profile: '" \o target.category \o "'). Prioritize questions/activities for this.")>>
    ELSE <<>>

\* lines 1768-1772 and 1832-1836: the activity as handed to the front end
activity_data_for_llm(activity) ==
    [id |-> activity.id, name |-> activity.name, short_summary |-> activity.short_summary,
     pdf_link |-> activity.pdf_link, vespa_element |-> activity.vespa_element, level |-> activity.level]

\* lines 1774 and 1838
pdf_text(activity) == IF Truthy(activity.pdf_link) /\ activity.pdf_link # "#" THEN " (Resource PDF available)" ELSE ""

\* the activities of all the known ids among related_activity_ids
activities_of_ids(known) ==
    LET activities == VESPA_ACTIVITIES_DATA.val
    IN  [i \in 1..Len(known) |->
            activity_data_for_llm(activities[Min({j \in 1..Len(activities) : activities[j].id = known[i]})])]

\* a variant that takes every known id, not the first two
primary_activities_unbounded(retrieved_activity_ids_kb) ==
    LET activities == VESPA_ACTIVITIES_DATA.val
    IN  activities_of_ids(Keep(retrieved_activity_ids_kb,
                               {i \in 1..Len(retrieved_activity_ids_kb) :
                                   \E j \in 1..Len(activities) : activities[j].id = retrieved_activity_ids_kb[i]}))

\* lines 1763-1777: at most two activities, in the order of related_activity_ids
primary_activities(retrieved_activity_ids_kb) ==
    LET activities == VESPA_ACTIVITIES_DATA.val
        known == Keep(retrieved_activity_ids_kb,
                      {i \in 1..Len(retrieved_activity_ids_kb) :
                          \E j \in 1..Len(activities) : activities[j].id = retrieved_activity_ids_kb[i]})
    IN  activities_of_ids(Take(known, 2))

\* a variant that lets the linked activities in from the first turn
include_activities_rag_at_any_depth(conversation_depth, asking, retrieved_activity_ids_kb) ==
    retrieved_activity_ids_kb # <<>>

\* line 1757
include_activities_rag(conversation_depth, asking, retrieved_activity_ids_kb) ==
    (conversation_depth >= 1 \/ asking) /\ retrieved_activity_ids_kb # <<>>

\* lines 1744-1780: the questions and the linked activities of the target element
questions_and_primary(target, student_educational_level_kb, conversation_depth, asking) ==
    IF Truthy(target.element) /\ Truthy(target.category) /\ target.category # "N/A"
    THEN LET questions_data_level_kb ==
                 Get(Get(coaching_kb.val.vespaSpecificCoachingQuestionsWithActivities, target.element, <<>>),
                     student_educational_level_kb, <<>>)
             questions_for_category_kb == Get(questions_data_level_kb, target.category, <<>>)
             retrieved_questions_kb == Get(questions_for_category_kb, "questions", <<>>)
             retrieved_activity_ids_kb == Get(questions_for_category_kb, "related_activity_ids", <<>>)
             chosen_coaching_questions_for_llm == Take(retrieved_questions_kb, 3)
             include == include_activities_rag(conversation_depth, asking, retrieved_activity_ids_kb)
             suggested == IF include THEN primary_activities(retrieved_activity_ids_kb) ELSE <<>>
         IN  [suggested |-> suggested,
              questions |-> chosen_coaching_questions_for_llm,
              parts |->
                (IF retrieved_questions_kb # <<>>
                 THEN <<Part("questions_header",
                             "\n--- Potentially Relevant Coaching Questions for '" \o target.element \o "' (Level: "
                                 \o student_educational_level_kb \o ", Profile: " \o target.category \o ") ---")>> \o
                      [i \in 1..Len(chosen_coaching_questions_for_llm) |->
                          Part("question", "- " \o chosen_coaching_questions_for_llm[i])]
                 ELSE <<>>) \o
                (IF include
                 THEN <<Part("activities_header",
                             IF asking
                             THEN "\n--- Suggested Activities for '" \o target.element
                                      \o "' (If student asks or after more discussion) ---"
                             ELSE "\n--- Potential Activities for '" \o target.element
                                      \o "' (Available if student expresses need) ---")>> \o
                      [i \in 1..Len(suggested) |->
                          Part("activity", "\n- Name: " \o suggested[i].name \o pdf_text(suggested[i])
                                               \o ".\n  Summary: " \o suggested[i].short_summary)]
                 ELSE IF retrieved_activity_ids_kb # <<>>
                 THEN <<Part("coach_note",
                             "\n[Coach Note: Relevant activities exist for '" \o target.element
                                 \o "'. Consider asking if student wants suggestions later if the conversation heads that way.]")>>
                 ELSE <<>>)]
    ELSE [suggested |-> <<>>, questions |-> <<>>, parts |-> <<>>]

\* line 1784
common_words_filter ==
    {"is", "a", "the", "and", "to", "of", "it", "in", "for", "on", "with", "as", "an", "at", "by", "my", "i", "me",
     "what", "how", "help", "can", "some", "this", "that", "area", "areas", "score", "scores"}

\* lines 1785-1788
keywords_from_query(current_user_message) ==
    LET words == Split(RemoveEach(Lower(current_user_message), <<"?", ".", ",", "'", "\"", "!">>))
    IN  Keep(words, {i \in 1..Len(words) : words[i] \notin common_words_filter /\ Len(words[i]) > 3})

\* lines 1812-1817
context_keywords_map ==
    << {"flashcard", "test", "quiz", "retrieval", "practice", "leitner", "command verb", "past paper", "exam paper",
        "mock exam", "question practice", "self-testing", "spaced repetition", "interleaving"},
       {"plan", "schedule", "diary", "timetable", "system", "organize", "task management", "prioritization", "notes"},
       {"confidence", "stress", "anxiety", "belief", "attitude", "resilience", "growth mindset", "coping"},
       {"goal", "target", "vision", "future", "career", "aspiration", "objective", "plan"} >>

\* lines 1796-1823: relevance_score_fallback of one activity
relevance_score_fallback(activity_item_fallback, keywords, current_user_message, inferred) ==
    LET activity_name_l == Lower(activity_item_fallback.name)
        activity_keywords_l == [i \in 1..Len(activity_item_fallback.keywords) |-> Lower(activity_item_fallback.keywords[i])]
        keyword_set == {activity_keywords_l[i] : i \in 1..Len(activity_keywords_l)}
        activity_summary_l == Lower(activity_item_fallback.short_summary)
        activity_corpus_theme == activity_name_l \o " " \o Join(activity_keywords_l, " ") \o " " \o activity_summary_l
        themes == {t \in 1..Len(context_keywords_map) : ContainsAny(Lower(current_user_message), context_keywords_map[t])}
    IN  5 * Cardinality({i \in 1..Len(keywords) : Contains(activity_name_l, keywords[i])})
        + 4 * Cardinality({i \in 1..Len(keywords) : keywords[i] \in keyword_set})
        + Cardinality({i \in 1..Len(keywords) : Contains(activity_summary_l, keywords[i])})
        + (IF Truthy(inferred) /\ Lower(activity_item_fallback.vespa_element) = Lower(inferred) THEN 3 ELSE 0)
        + 2 * Cardinality({<<t, w>> \in themes \X UNION {context_keywords_map[t] : t \in 1..Len(context_keywords_map)} :
                              w \in context_keywords_map[t] /\ Contains(activity_corpus_theme, w)})

\* lines 1794-1828: scored_activities_list after its sort
scored_activities_list(current_user_message, inferred) ==
    LET activities == VESPA_ACTIVITIES_DATA.val
        keywords == keywords_from_query(current_user_message)
        scored == [i \in 1..Len(activities) |->
                      [relevance |-> relevance_score_fallback(activities[i], keywords, current_user_message, inferred),
                       activity |-> activities[i]]]
    IN  IF keywords = <<>> THEN <<>>
        ELSE sort_by_relevance_reversed(Keep(scored, {i \in 1..Len(scored) : scored[i].relevance > 3}))

\* lines 1830-1842: the top two of the list, an id taken once
fallback_activities(scored) ==
    LET top == Take(scored, 2)
        once == Keep(top, {i \in 1..Len(top) : \A j \in 1..(i - 1) : top[j].activity.id # top[i].activity.id})
    IN  [i \in 1..Len(once) |-> activity_data_for_llm(once[i].activity)]

\* lines 1839-1846
fallback_parts(found) ==
    IF found = <<>> THEN <<>>
    ELSE <<Part("activities_header",
                "\n--- Also Consider these Activities (based on your message keywords, if primary ones aren't suitable) ---")>> \o
         [i \in 1..Len(found) |->
             Part("activity", "- Name: " \o found[i].name \o pdf_text(found[i]) \o ". Summary: "
                                  \o Take(found[i].short_summary, 150) \o "...")]

\* lines 1881-1906: conversation_guidance; each block is written by its heading and
\* its line on activities
conversation_guidance(conversation_depth, asking, suggested_activities_for_response) ==
    IF conversation_depth < 2 /\ ~asking
    THEN "\n\nCONVERSATION PHASE (Turn " \o ToString(conversation_depth + 1) \o "): Early stage.\n"
             \o "- Activities: DO NOT suggest activities yet unless they ask. IGNORE any activities in RAG for now.\n"
    ELSE IF conversation_depth >= 2 /\ ~asking
    THEN "\n\nCONVERSATION PHASE (Turn " \o ToString(conversation_depth + 1) \o "): Deeper dive.\n"
             \o "- Activities: Only suggest if they confirm interest AND it's directly relevant.\n"
    ELSE IF asking /\ suggested_activities_for_response # <<>>
    THEN "\n\nACTIVITY SUGGESTION PHASE: Student has asked for activity suggestions.\n"
             \o "- Activities: Review the suggested activities in RAG. Pick ONLY 1 or MAX 2 that are *most directly relevant* to their *current specific problem*.\n"
    ELSE ""

\* the student's message and the coach's answer are saved to Knack; the id of the
\* record, None when Knack did not take it (save_chat_message_to_knack)
saved_id(log, knack_up) == IF knack_up THEN "chatlog_" \o ToString(Len(log) + 1) ELSE None

\* the log after save_chat_message_to_knack(id, author, message_text)
saved(log, knack_up, author, message_text) ==
    IF knack_up THEN Append(log, [author |-> author, text |-> message_text]) ELSE log

\* the two knowledge files the linked and the keyword-matched activities need (line 1700)
kbs_loaded == ~Falsy(coaching_kb) /\ ~Falsy(VESPA_ACTIVITIES_DATA)

\* lines 1464-1603 of src/app.py chat_turn: what the turn reads from the request
turn_of_request(current_user_message, chat_history, initial_ai_context) ==
    [student_name_for_chat |->
        IF ~Falsy(initial_ai_context) /\ Truthy(initial_ai_context.val.student_name)
        THEN FirstField(initial_ai_context.val.student_name) ELSE "there",
     student_vespa_profile |-> IF Falsy(initial_ai_context) THEN <<>> ELSE initial_ai_context.val.vespa_profile,
     student_educational_level_kb |->
        IF Falsy(initial_ai_context) THEN "Level 3"
        ELSE get_student_educational_level(OrDefault(initial_ai_context.val.student_level, "N/A")),
     conversation_depth |-> Cardinality({i \in 1..Len(chat_history) : chat_history[i].role = "user"}),
     user_asking_for_activity |-> user_asking_for_activity(current_user_message),
     inferred_vespa_element_from_query |-> inferred_vespa_element(current_user_message)]

\* lines 1605-1742: the statements and the insights of the turn, and the element and
\* score category the linked questions and activities are looked up by
turn_with_insights(current_user_message, turn) ==
    turn @@
    [relevant_vespa_statements |->
        relevant_vespa_statements(current_user_message, turn.inferred_vespa_element_from_query),
     temp_insights_with_scores |->
        temp_insights_with_scores(current_user_message, turn.inferred_vespa_element_from_query),
     target |-> rag_target(current_user_message, turn.student_vespa_profile,
                           turn.inferred_vespa_element_from_query)]

\* lines 1744-1780: the coaching questions and the activities linked to them
turn_with_linked(turn) ==
    turn @@
    [linked |-> IF kbs_loaded
                THEN questions_and_primary(turn.target, turn.student_educational_level_kb,
                                           turn.conversation_depth, turn.user_asking_for_activity)
                ELSE [suggested |-> <<>>, questions |-> <<>>, parts |-> <<>>]]

\* lines 1782-1828: the activities matched by the keywords of the message, when no
\* linked activity was taken
turn_with_scored_activities(current_user_message, turn) ==
    turn @@
    [scored_activities_list |->
        IF /\ kbs_loaded
           /\ turn.linked.suggested = <<>>
           /\ (turn.conversation_depth >= 1 \/ turn.user_asking_for_activity)
        THEN scored_activities_list(current_user_message, turn.inferred_vespa_element_from_query)
        ELSE <<>>]

\* lines 1830-1842: the keyword-matched activities the turn takes
turn_with_fallback(turn) == turn @@ [fallback |-> fallback_activities(turn.scored_activities_list)]

\* lines 1500-1846: the parts of the context, in the order they are appended
turn_with_context_parts(current_user_message, initial_ai_context, turn) ==
    turn @@
    [relevant_coaching_insights_for_chat |-> Take(turn.temp_insights_with_scores, 3),
     suggested_activities_for_response |-> turn.linked.suggested \o turn.fallback,
     rag_context_parts |->
        <<Part("title", "--- Context for My VESPA AI Coach ---")>> \o
        student_data_parts(initial_ai_context) \o
        statements_parts(turn.relevant_vespa_statements) \o
        insights_parts(Take(turn.temp_insights_with_scores, 3)) \o
        critical_note_parts(current_user_message) \o
        (IF kbs_loaded
         THEN framing_parts(turn.student_vespa_profile) \o focus_parts(current_user_message, turn.target)
              \o turn.linked.parts \o fallback_parts(turn.fallback)
         ELSE <<>>)]

\* lines 1848-1938: the messages handed to the language model.  The fixed text of the
\* system prompt is cut to its first lines.
turn_with_messages(current_user_message, chat_history, turn) ==
    [conversation_depth |-> turn.conversation_depth,
     user_asking_for_activity |-> turn.user_asking_for_activity,
     inferred_vespa_element_from_query |-> turn.inferred_vespa_element_from_query,
     relevant_vespa_statements |-> turn.relevant_vespa_statements,
     temp_insights_with_scores |-> turn.temp_insights_with_scores,
     relevant_coaching_insights_for_chat |-> turn.relevant_coaching_insights_for_chat,
     chosen_coaching_questions_for_llm |-> turn.linked.questions,
     scored_activities_list |-> turn.scored_activities_list,
     suggested_activities_for_response |-> turn.suggested_activities_for_response,
     rag_context_parts |-> turn.rag_context_parts,
     messages_for_llm |->
        <<[role |-> "system",
           content |->
              "You are My VESPA AI Coach - a warm, supportive coach who helps students develop their Vision, Effort, Systems, Practice, and Attitude.\n\n"
                  \o "You're chatting with " \o turn.student_name_for_chat \o ". Always use just their first name."
                  \o conversation_guidance(turn.conversation_depth, turn.user_asking_for_activity,
                                           turn.suggested_activities_for_response)]>> \o
        (IF Len(turn.rag_context_parts) > 1
         THEN <<[role |-> "system",
                 content |-> "ADDITIONAL CONTEXT FOR YOUR RESPONSE (Student Data, RAG Insights & Potential Activities):\n"
                                 \o Join([i \in 1..Len(turn.rag_context_parts) |-> turn.rag_context_parts[i].text], "\n")
                                 \o "\n--- How to Use Activities Effectively (Interpreting RAG Context for this Turn with "
                                 \o turn.student_name_for_chat \o ") ---\n"]>>
         ELSE <<>>) \o
        [i \in 1..Len(chat_history) |->
            [role |-> IF Lower(chat_history[i].role) \in {"user", "assistant"} THEN Lower(chat_history[i].role) ELSE "user",
             content |-> chat_history[i].content]] \o
        <<[role |-> "user", content |-> current_user_message]>>]

\* lines 1464-1938 of src/app.py chat_turn: what the turn works out before it calls the
\* language model, step by step in the order of the code
chat_turn_context(current_user_message, chat_history, initial_ai_context) ==
    turn_with_messages(current_user_message, chat_history,
        turn_with_context_parts(current_user_message, initial_ai_context,
            turn_with_fallback(
                turn_with_scored_activities(current_user_message,
                    turn_with_linked(
                        turn_with_insights(current_user_message,
                            turn_of_request(current_user_message, chat_history, initial_ai_context)))))))

-----------------------------------------------------------------------------
(* chat_turn of src/knowledge_base/app.py                                   *)

\* a JSON true or false
BoolV(b) == [t |-> "bool", b |-> b]

\* lines 1756-1766
kbapp_common_words ==
    {"is", "a", "the", "and", "to", "of", "it", "in", "for", "on", "with", "as", "an", "at", "by",
     "what", "how", "tell", "me", "about", "can", "you", "help", "student", "student's", "students",
     "i", "am", "my", "need", "her", "his", "him", "she", "he", "they", "them", "their", "concern",
     "concerned", "issue", "problem", "regard", "regarding", "this", "that", "these", "those",
     "think", "thinking", "feel", "feels", "feeling", "suggest", "suggestion", "suggestions", "advice", "idea", "ideas",
     "get", "give", "have", "has", "had", "do", "does", "did", "some", "any", "lot", "little", "bit",
     "very", "really", "quite", "much", "more", "less", "also", "too", "well", "good", "bad", "okay",
     "would", "should", "could", "may", "might", "must", "will", "shall", "from", "make", "making",
     "example", "examples", "way", "ways", "try", "trying", "want", "wants", "talk", "talking"}

\* lines 1768-1772
kbapp_keywords(current_tutor_message) ==
    LET words == Split(RemoveEach(Lower(current_tutor_message), <<"?", ".", ",", "'s", "\"", "'">>))
    IN  Keep(words, {i \in 1..Len(words) : words[i] \notin kbapp_common_words /\ Len(words[i]) > 2})

\* any(kw in text for kw in keywords)
AnyKeywordIn(keywords, text) == \E i \in 1..Len(keywords) : Contains(text, keywords[i])

\* lines 1775-1786
kbapp_vespa_element_from_problem(current_tutor_message) ==
    LET message_lower == Lower(current_tutor_message)
    IN  IF Contains(message_lower, "vision related") THEN "VISION"
        ELSE IF Contains(message_lower, "effort related") THEN "EFFORT"
        ELSE IF Contains(message_lower, "systems related") THEN "SYSTEMS"
        ELSE IF Contains(message_lower, "practice related") THEN "PRACTICE"
        ELSE IF Contains(message_lower, "attitude related") THEN "ATTITUDE"
        ELSE None

\* lines 1792-1803: the first two insights that carry a keyword
kbapp_found_insights(keywords) ==
    IF Falsy(COACHING_INSIGHTS_DATA) \/ keywords = <<>> THEN <<>>
    ELSE LET insights == COACHING_INSIGHTS_DATA.val
         IN  Take(Keep(insights, {i \in 1..Len(insights) :
                          AnyKeywordIn(keywords, Lower(StrOfList(insights[i].keywords)) \o Lower(insights[i].name)
                                                     \o Lower(insights[i].description))}), 2)

\* lines 1801-1806
kbapp_insights_parts(found_insights) ==
    IF found_insights = <<>> THEN <<>>
    ELSE <<Part("insights_header", "\nRelevant Coaching Insights you might consider:")>> \o
         [i \in 1..Len(found_insights) |->
             Part("insight", "- Insight: " \o found_insights[i].name \o " (Description: "
                                 \o Take(found_insights[i].description, 100) \o "...)")]

\* lines 1818-1838: all_matched_activities_with_level_info before its sort
kbapp_matched_activities(keywords, vespa_element_from_problem) ==
    LET activities == VESPA_ACTIVITIES_DATA.val
        is_element_match(activity) ==
            IF Truthy(vespa_element_from_problem)
            THEN BoolV(Upper(activity.vespa_element) = vespa_element_from_problem)
            ELSE NoneV
        is_keyword_match(activity) ==
            AnyKeywordIn(keywords, Lower(StrOfList(activity.keywords)) \o Lower(activity.name)
                                       \o Lower(activity.short_summary) \o Lower(activity.vespa_element))
        matched == Keep(activities, {i \in 1..Len(activities) :
                           is_keyword_match(activities[i]) \/ is_element_match(activities[i]) = BoolV(TRUE)})
    IN  [i \in 1..Len(matched) |->
            [id |-> matched[i].id, name |-> matched[i].name, short_summary |-> matched[i].short_summary,
             pdf_link |-> matched[i].pdf_link, vespa_element |-> matched[i].vespa_element,
             level |-> matched[i].level, is_element_match |-> is_element_match(matched[i])]]

\* lines 1842-1860
sort_key_activities(act, student_level_from_context) ==
    (IF act.is_element_match = BoolV(TRUE) THEN 100 ELSE 0)
    + (IF Truthy(student_level_from_context)
       THEN IF act.level = student_level_from_context THEN 60
            ELSE IF act.level = "" THEN 20
            ELSE IF student_level_from_context = "Level 2" /\ act.level = "Level 3" THEN 10
            ELSE IF student_level_from_context = "Level 3" /\ act.level = "Level 2" THEN 10
            ELSE 0
       ELSE IF act.level = "" THEN 30 ELSE 0)

\* line 1862: all_matched_activities_with_level_info after its sort
kbapp_sorted_activities(matched, student_level_from_context) ==
    LET keyed == [i \in 1..Len(matched) |->
                     [relevance |-> sort_key_activities(matched[i], student_level_from_context), activity |-> matched[i]]]
        sorted == sort_by_relevance_reversed(keyed)
    IN  [i \in 1..Len(sorted) |-> sorted[i].activity]

RECURSIVE kbapp_top_activities(_, _)
\* lines 1865-1876: the first three of the sorted list, an id taken once
kbapp_top_activities(sorted, found) ==
    IF sorted = <<>> \/ Len(found) >= 3 THEN found
    ELSE IF \E i \in 1..Len(found) : found[i].id = Head(sorted).id
    THEN kbapp_top_activities(Tail(sorted), found)
    ELSE kbapp_top_activities(Tail(sorted), Append(found, Head(sorted)))

\* line 1871
kbapp_pdf_available_text(activity_data) ==
    IF Truthy(activity_data.pdf_link) /\ activity_data.pdf_link # "#" THEN " (Resource PDF available)" ELSE ""

\* the section of the activities when some were found
kbapp_activities_found_parts(suggested, sorted, vespa_element_from_problem) ==
    <<Part("activities_header", "\n--- Provided VESPA Activities ---"),
      Part("activities_header", "ONLY use the following activities if you choose to suggest one. For each, I've provided its Name, VESPA element, a Summary, Level and whether a PDF is available. When suggesting an activity, use its Name. Do NOT mention the ID. If a PDF is indicated as available, you can state that resources are available for it:")>> \o
    (IF Truthy(vespa_element_from_problem) /\ \E i \in 1..Len(sorted) : sorted[i].is_element_match = BoolV(TRUE)
     THEN <<Part("activities_header", "NOTE: Activities from " \o vespa_element_from_problem
                     \o " element are prioritized if relevant, as the problem was identified as "
                     \o vespa_element_from_problem \o "-related.")>>
     ELSE <<>>) \o
    [i \in 1..Len(suggested) |->
        Part("activity", "- Name: " \o suggested[i].name \o ", VESPA Element: " \o suggested[i].vespa_element
                             \o kbapp_pdf_available_text(suggested[i]) \o ". "
                             \o (IF suggested[i].level # "" THEN "Level: " \o suggested[i].level
                                 ELSE "Level: Agnostic (Handbook)")
                             \o ". Summary: " \o Take(suggested[i].short_summary, 100) \o "...")]

\* a variant that leaves the section out when no activity was found
kbapp_activities_parts_omitting_empty(suggested, sorted, vespa_element_from_problem) ==
    IF suggested # <<>> THEN kbapp_activities_found_parts(suggested, sorted, vespa_element_from_problem) ELSE <<>>

\* lines 1871-1890: the section of the activities, or the line that says none was found
kbapp_activities_parts(suggested, sorted, vespa_element_from_problem) ==
    IF suggested # <<>>
    THEN kbapp_activities_found_parts(suggested, sorted, vespa_element_from_problem)
    ELSE <<Part("activities_header", "\n--- Provided VESPA Activities ---"),
           Part("activities_placeholder", "No specific VESPA activities from the knowledge base were found relevant to the current query. Do not suggest any activities unless they are listed here.")>>

\* lines 1895-1907: the first two reflective statements that carry a keyword
kbapp_found_statements(keywords) ==
    IF REFLECTIVE_STATEMENTS_DATA = <<>> \/ keywords = <<>> THEN <<>>
    ELSE Take(Keep(REFLECTIVE_STATEMENTS_DATA,
                   {i \in 1..Len(REFLECTIVE_STATEMENTS_DATA) :
                       AnyKeywordIn(keywords, Lower(REFLECTIVE_STATEMENTS_DATA[i]))}), 2)

kbapp_statements_parts(found_statements) ==
    IF found_statements = <<>> THEN <<>>
    ELSE <<Part("statements_header",
                "\nRelevant Reflective Statements (from 100 statements - 2023.txt) the tutor could adapt:")>> \o
         [i \in 1..Len(found_statements) |->
             Part("statement", "- Statement: \"" \o Take(found_statements[i], 150) \o "...\"")]

\* line 1915
coaching_question_trigger_keywords ==
    {"question", "questions", "ask", "guide", "coach", "coaching", "empower", "help student think",
     "student to decide", "how should i ask", "what should i ask"}

\* line 1916
search_coaching_questions(keywords, current_tutor_message) ==
    \/ \E i \in 1..Len(keywords) : keywords[i] \in coaching_question_trigger_keywords
    \/ ContainsAny(Lower(current_tutor_message), coaching_question_trigger_keywords)

\* lines 1935-1941: the level of one element whose questions are read, None when there is none
kb_student_level_key(levels_data, student_level_from_context) ==
    LET levels == {levels_data[i].level : i \in 1..Len(levels_data)}
        key == IF student_level_from_context \in levels THEN student_level_from_context
               ELSE IF student_level_from_context = "Level 3" /\ "Level 2" \in levels THEN "Level 2"
               ELSE IF student_level_from_context = "Level 2" /\ "Level 3" \in levels THEN "Level 3"
               ELSE None
    IN  IF key # None /\ \E i \in 1..Len(levels_data) : levels_data[i].level = key /\ levels_data[i].score_types # <<>>
        THEN key ELSE None

\* the questions of vespaSpecificCoachingQuestions in the order the loops of lines
\* 1932-1944 come to them, each with its element, level and score type
kbapp_specific_questions(student_level_from_context) ==
    LET elements == coaching_kb.val.vespaSpecificCoachingQuestions
    IN  Flatten([e \in 1..Len(elements) |->
            LET key == kb_student_level_key(elements[e].levels, student_level_from_context)
                at == {i \in 1..Len(elements[e].levels) : elements[e].levels[i].level = key}
                score_types == IF key = None THEN <<>> ELSE elements[e].levels[Min(at)].score_types
            IN  Flatten([s \in 1..Len(score_types) |->
                    [q \in 1..Len(score_types[s].questions) |->
                        [vespa_element |-> elements[e].element, level |-> key,
                         score_type |-> score_types[s].score_type, q_text |-> score_types[s].questions[q]]]])])

RECURSIVE kbapp_scan_specific(_, _, _, _)
\* lines 1931-1953: a question is taken while fewer than three are found and it carries a
\* keyword (or, on a trigger, its element or score type does); with a trigger and no
\* keyword at all, questions are taken while fewer than two are found
kbapp_scan_specific(questions, keywords, search, found) ==
    IF questions = <<>> \/ Len(found) >= 3 THEN found
    ELSE LET q == Head(questions)
             text == "- " \o q.vespa_element \o " (" \o q.level \o " - " \o q.score_type \o "): " \o q.q_text
         IN  IF \/ AnyKeywordIn(keywords, Lower(q.q_text))
                \/ search /\ (AnyKeywordIn(keywords, Lower(q.vespa_element)) \/ AnyKeywordIn(keywords, Lower(q.score_type)))
             THEN kbapp_scan_specific(Tail(questions), keywords, search, Append(found, text))
             ELSE IF search /\ Len(found) < 2 /\ keywords = <<>>
             THEN kbapp_scan_specific(Tail(questions), keywords, search, Append(found, text))
             ELSE kbapp_scan_specific(Tail(questions), keywords, search, found)

\* lines 1918-1953: current_found_coaching_questions
kbapp_found_coaching_questions(keywords, current_tutor_message, student_level_from_context) ==
    LET search == search_coaching_questions(keywords, current_tutor_message)
        general == coaching_kb.val.generalIntroductoryQuestions
        found_general == Take(Keep(general, {i \in 1..Len(general) :
                                      AnyKeywordIn(keywords, Lower(general[i])) \/ search}), 3)
    IN  IF Falsy(coaching_kb) \/ ~(keywords # <<>> \/ search) THEN <<>>
        ELSE kbapp_scan_specific(kbapp_specific_questions(student_level_from_context), keywords, search,
                                 [i \in 1..Len(found_general) |-> "- General Question: " \o found_general[i]])

\* lines 1954-1956
kbapp_questions_parts(found_questions) ==
    IF found_questions = <<>> THEN <<>>
    ELSE <<Part("questions_header",
                "\nRelevant Coaching Questions from Knowledge Base (for your inspiration to help the tutor):")>> \o
         [i \in 1..Len(found_questions) |-> Part("question", found_questions[i])]

\* lines 1752-1961 of src/knowledge_base/app.py chat_turn: what is retrieved from the
\* knowledge bases for the tutor's message
kbapp_retrieve(current_tutor_message, student_level_from_context) ==
    LET keywords == kbapp_keywords(current_tutor_message)
        vespa_element_from_problem == kbapp_vespa_element_from_problem(current_tutor_message)
        found_insights == kbapp_found_insights(keywords)
        activities_loaded == ~Falsy(VESPA_ACTIVITIES_DATA)
        sorted == IF activities_loaded
                  THEN kbapp_sorted_activities(kbapp_matched_activities(keywords, vespa_element_from_problem),
                                               student_level_from_context)
                  ELSE <<>>
        suggested_activities_for_response == kbapp_top_activities(sorted, <<>>)
        found_statements == kbapp_found_statements(keywords)
        found_questions == kbapp_found_coaching_questions(keywords, current_tutor_message, student_level_from_context)
    IN  [keywords |-> keywords,
         vespa_element_from_problem |-> vespa_element_from_problem,
         found_insights |-> found_insights,
         all_matched_activities_with_level_info |-> sorted,
         suggested_activities_for_response |-> suggested_activities_for_response,
         found_statements |-> found_statements,
         found_coaching_questions |-> found_questions,
         retrieved_context_parts |->
            kbapp_insights_parts(found_insights) \o
            (IF activities_loaded
             THEN kbapp_activities_parts(suggested_activities_for_response, sorted, vespa_element_from_problem)
             ELSE <<>>) \o
            kbapp_statements_parts(found_statements) \o
            kbapp_questions_parts(found_questions)]

\* lines 1683-1750 and 1966-1992 of src/knowledge_base/app.py chat_turn: the messages
\* handed to the language model, retrieved being what the turn retrieved.  obj10_name is
\* the name Knack holds for the student, None when the record cannot be read.  The fixed
\* text of the system prompt is cut to its first sentence.
kbapp_chat_turn_context(current_tutor_message, chat_history, initial_ai_context, obj10_name, retrieved) ==
    LET student_level_from_context == IF Falsy(initial_ai_context) THEN None ELSE initial_ai_context.val.student_level
        student_name_for_chat ==
            IF ~Falsy(initial_ai_context) /\ Truthy(initial_ai_context.val.student_name)
            THEN initial_ai_context.val.student_name
            ELSE IF Truthy(obj10_name) THEN obj10_name ELSE "the student"
        student_level_for_prompt == IF Truthy(student_level_from_context) THEN student_level_from_context ELSE "unknown"
        vespa_element_from_problem == retrieved.vespa_element_from_problem
        retrieved_context_parts == retrieved.retrieved_context_parts
        c == initial_ai_context.val
        context_preamble ==
            "Key previously generated insights for this student (use this as context for the current chat):\n"
            \o (IF Truthy(c.student_overview_summary)
                THEN "- Overall Student Snapshot: " \o c.student_overview_summary \o "\n" ELSE "")
            \o (IF Truthy(c.academic_benchmark_analysis)
                THEN "- Academic Benchmark Analysis: " \o c.academic_benchmark_analysis \o "\n" ELSE "")
            \o (IF Truthy(c.questionnaire_interpretation_and_reflection_summary)
                THEN "- Questionnaire Interpretation: " \o c.questionnaire_interpretation_and_reflection_summary \o "\n"
                ELSE "")
            \o (IF Truthy(student_level_from_context) THEN "- Student Level: " \o student_level_from_context \o "\n" ELSE "")
            \o (IF retrieved_context_parts # <<>>
                THEN "\n\n--- Additional Context Retrieved from Knowledge Bases (Based on Tutor's Query) ---\n"
                     \o "Use the following information to formulate your response. Remember the guidelines on synthesizing, explaining relevance, and practical application.\n"
                     \o (IF Truthy(vespa_element_from_problem)
                         THEN "IMPORTANT: The tutor has indicated a " \o vespa_element_from_problem
                              \o "-related problem. If relevant activities from this element are listed under '--- Provided VESPA Activities ---', prioritize suggesting one.\n"
                         ELSE "")
                     \o "\n"
                     \o Join([i \in 1..Len(retrieved_context_parts) |-> retrieved_context_parts[i].text], "\n")
                ELSE "")
            \o "\n\nGiven the student's overall profile (from initial context) and any specific items just retrieved from the knowledge bases (detailed above), please respond to the tutor's latest message. Adhere to all persona and response guidelines."
        history == [i \in 1..Len(chat_history) |->
                       [role |-> chat_history[i].role,
                        content |-> IF chat_history[i].is_liked /\ chat_history[i].role = "assistant"
                                    THEN "[Tutor Liked This Assistant Response]: " \o chat_history[i].content
                                    ELSE IF chat_history[i].is_liked /\ chat_history[i].role = "user"
                                    THEN "[Tutor Indicated This Was Important User Context]: " \o chat_history[i].content
                                    ELSE chat_history[i].content]]
        system_prompt ==
            [role |-> "system",
             content |-> "You are an AI assistant helping a tutor analyze a student's VESPA profile and coaching needs. "
                             \o "Consider the student's level (" \o student_level_for_prompt \o ") when selecting insights. "
                             \o "You're coaching the tutor about " \o student_name_for_chat \o "."]
    IN  IF Falsy(initial_ai_context)
        THEN [rag |-> FALSE,
              messages_for_llm |-> <<system_prompt>> \o history \o <<[role |-> "user", content |-> current_tutor_message]>>]
        ELSE [rag |-> TRUE,
              retrieved |-> retrieved,
              messages_for_llm |-> <<system_prompt, [role |-> "system", content |-> context_preamble]>> \o history
                                       \o <<[role |-> "user", content |-> current_tutor_message]>>]

-----------------------------------------------------------------------------
(* Inputs and loaded knowledge bases the model explores                    *)

\* bounds of the model
MaxWords == 2
MaxBands == 2

RECURSIVE Phrases(_, _)
\* the strings made of 1..n of the words, joined by single blanks
Phrases(words, n) ==
    IF n = 0 THEN {}
    ELSE IF n = 1 THEN words
    ELSE LET shorter == Phrases(words, n - 1)
         IN  shorter \cup {p \o " " \o w : p \in shorter, w \in words}

ExamWords ==
    {"A Level", "a-level", "AS Level", "IB", "HL", "SL", "BTEC", "Extended Diploma", "Diploma",
     "Subsidiary Diploma", "Extended Certificate", "Certificate", "Pre-U", "Short Course", "UAL",
     "CACHE", "WJEC", "GCSE"}

ExampleExamTypes ==
    {"BTEC Level 3 Extended Diploma in Business", "BTEC Extended Certificate 2010",
     "  A Level Maths ", "  ", "International Baccalaureate HL", "IB Higher Level",
     "btec level 3 diploma", "A2 Maths", "N/A", "CACHE Award", "BTEC Level 3", "Visual Arts", "BTEC Subsidiary"}

\* the raw exam types a subject record may carry
RawExamTypes == {None, ""} \cup Phrases(ExamWords, MaxWords) \cup ExampleExamTypes

\* grade_to_points_mapping.json as loaded, as it may be: complete, without A Level,
\* empty, or not loaded
ALevelPoints ==
    ("A*" :> 56) @@ ("A" :> 48) @@ ("B" :> 40) @@ ("C" :> 32) @@ ("D" :> 24) @@ ("E" :> 16) @@ ("U" :> 0)
ASLevelPoints ==
    ("A" :> 20) @@ ("B" :> 16) @@ ("C" :> 12) @@ ("D" :> 10) @@ ("E" :> 6) @@ ("U" :> 0)
BtecExtCertPoints ==
    ("D*" :> 56) @@ ("D" :> 48) @@ ("M" :> 32) @@ ("P" :> 16)
FullGradeTable ==
    ("A Level" :> ALevelPoints) @@ ("AS Level" :> ASLevelPoints)
        @@ ("BTEC Level 3 Extended Certificate" :> BtecExtCertPoints)
GradeTableWithoutALevel ==
    ("AS Level" :> ASLevelPoints) @@ ("BTEC Level 3 Extended Certificate" :> BtecExtCertPoints)
\* an A Level entry that lacks grades the fallback has, and gives A its own points
GradeTableWithPartialALevel ==
    ("A Level" :> (("A" :> 50) @@ ("B" :> 40))) @@ ("AS Level" :> ASLevelPoints)
GradeTables ==
    {NoneObj, Obj(<<>>), Obj(FullGradeTable), Obj(GradeTableWithoutALevel), Obj(GradeTableWithPartialALevel)}

Grades == {None, "", "N/A", "A*", "a", " B ", "Dist*", "DIST", "Merit", "Pass", "D*", "U", "X"}
PointsQualifications == {None, "A Level", "AS Level", "BTEC Extended Certificate", "GCSE"}

\* bands as they occur in alpsBands_*.json files: the key spellings vary, a bound may
\* be a number, a string, null or missing
BandPool ==
    { ("gcseMinScore" :> NumV(60)) @@ ("gcseMaxScore" :> NumV(65)) @@ ("megAspiration" :> StrV("C")),
      ("gcseMinScore" :> NumV(65)) @@ ("gcseMaxScore" :> NumV(70)) @@ ("megAspiration" :> StrV("B")),
      ("gcseMin" :> NumV(60)) @@ ("MEG Aspiration" :> StrV("A")),
      ("gcseMinScore" :> NumV(65)) @@ ("gcseMaxScore" :> NoneV) @@ ("megAspiration" :> StrV("A*")),
      ("lowerBound" :> StrV("6.5")) @@ ("upperBound" :> StrV("7.0")) @@ ("MEG" :> StrV("D")),
      ("gcseMinScore" :> NumV(60)) @@ ("gcseMaxScore" :> StrV("n/a")) @@ ("megAspiration" :> StrV("E")),
      ("gcseMaxScore" :> NumV(70)) @@ ("megAspiration" :> StrV("U")) }

RECURSIVE Tables(_)
\* the tables of at most n bands
Tables(n) ==
    IF n = 0 THEN {<<>>}
    ELSE LET shorter == Tables(n - 1)
         IN  shorter \cup {Append(t, b) : t \in shorter, b \in BandPool}

Std60 == << ("gcseMinScore" :> NumV(0)) @@ ("gcseMaxScore" :> NumV(65)) @@ ("megAspiration" :> StrV("D")),
            ("gcseMinScore" :> NumV(65)) @@ ("megAspiration" :> StrV("C")) >>
Std90 == << ("gcseMinScore" :> NumV(0)) @@ ("gcseMaxScore" :> NumV(65)) @@ ("megAspiration" :> StrV("B")),
            ("gcseMinScore" :> NumV(65)) @@ ("megAspiration" :> StrV("A")) >>
Std100 == << ("gcseMinScore" :> NumV(0)) @@ ("gcseMaxScore" :> NumV(65)) @@ ("megAspiration" :> StrV("A")),
             ("gcseMinScore" :> NumV(65)) @@ ("megAspiration" :> StrV("A*")) >>

PriorAttainmentScores ==
    {NoneV, NumV(59), NumV(60), NumV(65), NumV(68), NumV(70), StrV("6.8"), StrV("abc")}
MegQualifications == {"A Level", "BTEC Diploma"}
Percentiles == {60, 75, 90, 100, 50}

\* no school averages cached and no call of get_school_vespa_averages in flight
NoSchoolAverages ==
    /\ SCHOOL_AVERAGES_CACHE = <<>>
    /\ time_now = 0
    /\ averages_calls = <<>>

\* the benchmark tables of the families other than A Level not loaded
NoFamilyTables ==
    /\ alps_bands_btec2010_kb = NoneObj
    /\ alps_bands_btec2016_kb = NoneObj
    /\ alps_bands_cache_kb = NoneObj
    /\ alps_bands_ib_kb = NoneObj
    /\ alps_bands_preU_kb = NoneObj
    /\ alps_bands_ual_kb = NoneObj
    /\ alps_bands_wjec_kb = NoneObj

\* the chat's knowledge files not loaded, no key and nothing saved
NoChatKnowledge ==
    /\ coaching_kb = NoneObj
    /\ COACHING_INSIGHTS_DATA = NoneObj
    /\ VESPA_ACTIVITIES_DATA = NoneObj
    /\ VESPA_STATEMENTS_DATA = NoneObj
    /\ REFLECTIVE_STATEMENTS_DATA = <<>>
    /\ OPENAI_API_KEY = None
    /\ knack_chat_log = <<>>

\* the benchmark tables not loaded
NoBenchmarkTables ==
    /\ grade_points_mapping_kb = NoneObj
    /\ alps_bands_aLevel_60_kb = NoneObj
    /\ alps_bands_aLevel_75_kb = NoneObj
    /\ alps_bands_aLevel_90_kb = NoneObj
    /\ alps_bands_aLevel_100_kb = NoneObj

NoCall == [op |-> "none"]

-----------------------------------------------------------------------------
(* Qualification normalisation: the calls                                  *)

InitNormalize ==
    /\ NoChatKnowledge
    /\ NoFamilyTables
    /\ NoSchoolAverages
    /\ grade_points_mapping_kb = NoneObj
    /\ alps_bands_aLevel_60_kb = NoneObj
    /\ alps_bands_aLevel_75_kb = NoneObj
    /\ alps_bands_aLevel_90_kb = NoneObj
    /\ alps_bands_aLevel_100_kb = NoneObj
    /\ call = NoCall

\* every behaviour makes one call, from the state after loading
normalize_call ==
    \E raw \in RawExamTypes :
        /\ call = NoCall
        /\ call' = [op |-> "normalize_qualification_type", exam_type_str |-> raw,
                    result |-> normalize_qualification_type(raw)]
        /\ UNCHANGED <<kbs, knack_chat_log>>

kbapp_normalize_call ==
    \E raw \in RawExamTypes :
        /\ call = NoCall
        /\ call' = [op |-> "kbapp_normalize_qualification_type", exam_type_str |-> raw,
                    result |-> kbapp_normalize_qualification_type(raw)]
        /\ UNCHANGED <<kbs, knack_chat_log>>

NextNormalize == normalize_call \/ kbapp_normalize_call

SpecNormalize == InitNormalize /\ [][NextNormalize]_vars

-----------------------------------------------------------------------------
(* Grade points: the calls                                                 *)

InitPoints ==
    /\ NoChatKnowledge
    /\ NoFamilyTables
    /\ NoSchoolAverages
    /\ grade_points_mapping_kb \in GradeTables
    /\ alps_bands_aLevel_60_kb = NoneObj
    /\ alps_bands_aLevel_75_kb = NoneObj
    /\ alps_bands_aLevel_90_kb = NoneObj
    /\ alps_bands_aLevel_100_kb = NoneObj
    /\ call = NoCall

get_points_call ==
    \E grade \in Grades, qualification_type \in PointsQualifications :
        /\ call = NoCall
        /\ call' = [op |-> "get_points", grade |-> grade, qualification_type |-> qualification_type,
                    result |-> get_points(grade, qualification_type)]
        /\ UNCHANGED <<kbs, knack_chat_log>>

\* the tutor backend passes the normalised type and its own loaded table
kbapp_get_points_call ==
    \E grade \in Grades, qualification_type \in PointsQualifications :
        /\ call = NoCall
        /\ call' = [op |-> "kbapp_get_points", grade |-> grade,
                    qualification_type |-> kbapp_normalize_qualification_type(qualification_type),
                    result |-> kbapp_get_points(kbapp_normalize_qualification_type(qualification_type),
                                                grade, grade_points_mapping_kb)]
        /\ UNCHANGED <<kbs, knack_chat_log>>

NextPoints == get_points_call \/ kbapp_get_points_call

SpecPoints == InitPoints /\ [][NextPoints]_vars

-----------------------------------------------------------------------------
(* MEG resolution: the calls                                               *)

InitMEG ==
    /\ NoChatKnowledge
    /\ NoFamilyTables
    /\ NoSchoolAverages
    /\ grade_points_mapping_kb \in {NoneObj, Obj(FullGradeTable)}
    /\ alps_bands_aLevel_75_kb \in {NoneObj} \cup {Obj(t) : t \in Tables(MaxBands)}
    /\ alps_bands_aLevel_60_kb = Obj(Std60)
    /\ alps_bands_aLevel_90_kb = Obj(Std90)
    /\ alps_bands_aLevel_100_kb = Obj(Std100)
    /\ call = NoCall

get_meg_call ==
    \E prior_attainment_score \in PriorAttainmentScores, qualification_type \in MegQualifications,
       percentile \in Percentiles :
        /\ call = NoCall
        /\ call' = [op |-> "get_meg_for_prior_attainment",
                    prior_attainment_score |-> prior_attainment_score,
                    qualification_type |-> qualification_type,
                    percentile |-> percentile,
                    table |-> select_table(normalize_qualification_type(qualification_type), percentile),
                    result |-> get_meg_for_prior_attainment(prior_attainment_score, qualification_type, percentile)]
        /\ UNCHANGED <<kbs, knack_chat_log>>

\* the tutor backend's callers (coaching_suggestions, lines 1275-1351) pass the table of
\* the percentile, the normalised type and the details extracted from the raw type, and
\* look up the points of the grade they get back
kbapp_get_meg_call ==
    \E prior_attainment_score \in PriorAttainmentScores, raw_exam_type \in MegQualifications,
       percentile \in Percentiles \ {50} :
        LET normalized_qual == kbapp_normalize_qualification_type(raw_exam_type)
            qual_details == kbapp_extract_qual_details(raw_exam_type, normalized_qual)
            benchmark_table_data == CASE percentile = 60 -> alps_bands_aLevel_60_kb
                                      [] percentile = 75 -> alps_bands_aLevel_75_kb
                                      [] percentile = 90 -> alps_bands_aLevel_90_kb
                                      [] percentile = 100 -> alps_bands_aLevel_100_kb
        IN  /\ call = NoCall
            /\ call' = [op |-> "kbapp_get_meg_for_prior_attainment",
                        prior_attainment_score |-> prior_attainment_score,
                        qualification_type |-> normalized_qual,
                        qual_details |-> qual_details,
                        table |-> benchmark_table_data,
                        result |-> kbapp_get_meg_for_prior_attainment(prior_attainment_score,
                                       benchmark_table_data, normalized_qual, qual_details),
                        points |-> kbapp_get_points(normalized_qual,
                                       kbapp_get_meg_for_prior_attainment(prior_attainment_score,
                                           benchmark_table_data, normalized_qual, qual_details),
                                       grade_points_mapping_kb)]
            /\ UNCHANGED <<kbs, knack_chat_log>>

NextMEG == get_meg_call \/ kbapp_get_meg_call

SpecMEG == InitMEG /\ [][NextMEG]_vars

-----------------------------------------------------------------------------
(* Chat turns: the knowledge bases, the requests and the calls              *)

\* bounds of the chat model: entries loaded from each knowledge file, and earlier
\* student messages in the history of a request
MaxCatalogue == 6
MaxDepth == 2

RECURSIVE Reverse(_)
Reverse(s) == IF s = <<>> THEN <<>> ELSE Append(Reverse(Tail(s)), Head(s))

Statement(id, category, statement, keywords) ==
    [id |-> id, category |-> category, statement |-> statement, keywords |-> keywords]

\* entries of vespa-statements.json
StatementPool ==
    << Statement("P10", "Practice", "I test myself on important topics", <<"test", "revision">>),
       Statement("S2", "Systems", "I plan and organise my time", <<"plan", "organise">>),
       Statement("P12", "Practice", "I spread out my revision", <<"revision">>),
       Statement("S7", "Systems", "I keep my notes in order", <<"notes">>),
       Statement("P18", "Practice", "I complete past papers", <<"exam">>),
       Statement("A5", "Attitude", "I stay calm under pressure", <<"calm", "pressure">>),
       Statement("P20", "Practice", "I rarely rely on highlighting", <<"highlight">>) >>

Insight(name, summary, tags, key_points, keywords, description) ==
    [name |-> name, summary |-> summary, tags |-> tags, key_points |-> key_points,
     keywords |-> keywords, description |-> description]

\* entries of coaching_insights.json
InsightPool ==
    << Insight("Growth Mindset", "Belief that ability can grow", <<"attitude", "mindset">>,
               <<"Praise the process">>, <<"mindset", "belief">>, "Ability grows with effort"),
       Insight("Retrieval Practice", "Testing yourself beats rereading", <<"practice", "memory">>,
               <<"Test often", "Space it out", "Mix topics", "Sleep well">>, <<"revision", "testing">>,
               "Recall strengthens memory"),
       Insight("Spaced Learning", "Spread study over weeks", <<"systems">>,
               <<>>, <<"revision", "timetable">>, "Gaps between sessions help"),
       Insight("Cornell Method", "Structured pages with cues", <<"systems", "notes">>,
               <<"Cue column", "Summary box">>, <<"notes">>, "A layout for notes"),
       Insight("Interleaving", "Mix topics in one session", <<"practice">>,
               <<"Switch subjects">>, <<"revision">>, "Mixing beats blocking"),
       Insight("Goal Gradient", "Effort rises near a goal", <<"vision">>,
               <<"Set near goals">>, <<"goal", "career">>, "Closer goals motivate"),
       Insight("Stress Curve", "Some pressure helps", <<"attitude">>,
               <<"Find the middle">>, <<"stress", "calm">>, "Too much stress harms recall") >>

Activity(id, name, short_summary, pdf_link, vespa_element, level, keywords) ==
    [id |-> id, name |-> name, short_summary |-> short_summary, pdf_link |-> pdf_link,
     vespa_element |-> vespa_element, level |-> level, keywords |-> keywords]

\* entries of vespa_activities_kb.json; two entries share the id SY1
ActivityPool ==
    << Activity("PR1", "Leitner Box", "A flashcard system for revision", "https://kb/pr1.pdf", "Practice", "Level 3",
                <<"flashcard", "revision">>),
       Activity("SY1", "Weekly Planner", "Plan your timetable for the week", "#", "Systems", "",
                <<"timetable", "plan">>),
       Activity("PR2", "Past Paper Practice", "Exam paper practice under time", "", "Practice", "Level 2",
                <<"revision", "exam">>),
       Activity("AT1", "Stress Bucket", "Ways to stay calm before exams", "https://kb/at1.pdf", "Attitude", "Level 3",
                <<"stress", "calm">>),
       Activity("SY1", "Timetable Builder", "Build a revision timetable", "https://kb/sy1.pdf", "Systems", "Level 3",
                <<"timetable", "revision">>),
       Activity("AT2", "Worry Time", "A way to stay calm at night", "#", "Attitude", "Level 3",
                <<"calm", "worry">>),
       Activity("PR3", "Revision Quiz", "Quiz yourself on notes", "#", "Practice", "",
                <<"revision", "notes">>) >>

\* lines of "100 statements - 2023.txt"
ReflectivePool ==
    << "I plan my revision in advance", "I stay calm when exams are near", "I test myself on my notes",
       "I know what grades I want", "I ask for help with revision", "I keep a timetable" >>

QuestionsAndActivities(questions, related_activity_ids) ==
    [questions |-> questions, related_activity_ids |-> related_activity_ids]

ScoreType(score_type, questions) == [score_type |-> score_type, questions |-> questions]
Level(level, score_types) == [level |-> level, score_types |-> score_types]
Element(element, levels) == [element |-> element, levels |-> levels]

\* coaching_questions_knowledge_base.json.  vespaSpecificCoachingQuestions, read in the
\* order of the file, is a list of entries; the other tables are read by key only.
CoachingQuestionsKb ==
    [conditionalFramingStatements |->
        << [id |-> "default_response", statement |-> "Every profile has strengths to build on."],
           [id |-> "low_4_or_5_scores", statement |-> "Several scores are low, so start small."] >>,
     vespaSpecificCoachingQuestionsWithActivities |->
        ("Systems" :>
            ("Level 3" :>
                ("Low" :> QuestionsAndActivities(<<"How do you plan your week?", "Where do you keep deadlines?",
                                                   "What does your timetable look like?", "Who checks your planner?">>,
                                                 <<"SY1", "ZZ9", "PR2", "PR1">>)
                 @@ "Medium" :> QuestionsAndActivities(<<"What would tidy notes change?">>, <<"PR3">>)))) @@
        ("Practice" :>
            ("Level 3" :>
                ("Low" :> QuestionsAndActivities(<<"How do you revise now?", "When did you last test yourself?">>,
                                                 <<"PR2", "PR1", "PR3">>)
                 @@ "Medium" :> QuestionsAndActivities(<<>>, <<"ZZ9">>))
             @@ "Level 2" :>
                ("Low" :> QuestionsAndActivities(<<"What does revision look like for you?">>, <<>>)))) @@
        ("Attitude" :>
            ("Level 3" :> ("Medium" :> [questions |-> <<"What helps you stay calm?">>]))),
     generalIntroductoryQuestions |->
        << "What is going well at the moment?", "What would you like to change about your revision?" >>,
     vespaSpecificCoachingQuestions |->
        << Element("Practice",
                   << Level("Level 3", << ScoreType("Low", <<"How do you revise now?", "Do you test yourself?">>),
                                          ScoreType("High", <<"What makes your revision work?">>) >>) >>),
           Element("Systems",
                   << Level("Level 2", << ScoreType("Low", <<"Where do you write down homework?",
                                                             "How do you plan revision?">>) >>) >>),
           Element("Vision", << Level("Level 1", << ScoreType("Low", <<"What is your goal?">>) >>) >>) >>]

ProfileEntry(el, score_1_to_10, score_profile_text) ==
    [el |-> el, score_1_to_10 |-> score_1_to_10, score_profile_text |-> score_profile_text]

\* a payload that carries none of the keys the chat turns read, beside an empty profile
BareContext ==
    [student_name |-> None, student_level |-> None, vespa_profile |-> <<>>,
     llm_generated_insights |-> [student_overview_summary |-> None, suggested_student_goals |-> NoneObj,
                                 questionnaire_interpretation_and_reflection_summary |-> None],
     school_vespa_averages |-> NoneObj, academic_profile_summary |-> NoneObj, academic_megs |-> NoneObj,
     student_reflections_and_goals |-> NoneObj, object29_question_highlights |-> NoneObj,
     student_overview_summary |-> None, academic_benchmark_analysis |-> None,
     questionnaire_interpretation_and_reflection_summary |-> None]

\* a Level 3 student, low on all five elements
LowContext ==
    [BareContext EXCEPT
        !.student_name = "Sam Lee",
        !.student_level = "Level 3",
        !.vespa_profile = << ProfileEntry("Vision", NumV(30), "Low"), ProfileEntry("Effort", NumV(20), "Very Low"),
                             ProfileEntry("Systems", NumV(30), "Low"), ProfileEntry("Practice", StrV("2"), "Low"),
                             ProfileEntry("Attitude", NumV(45), "Low"), ProfileEntry("Overall", NumV(29), None) >>,
        !.llm_generated_insights =
            [student_overview_summary |-> "Sam works hard but revises passively.",
             suggested_student_goals |-> Obj(<<"Test yourself weekly", " ", "Plan ahead">>),
             questionnaire_interpretation_and_reflection_summary |->
                 "Sam agrees with most effort statements but rarely plans revision ahead of time."],
        !.school_vespa_averages = Obj("Vision" :> NumV(55) @@ "Effort" :> NumV(20) @@ "Systems" :> NumV(12)
                                      @@ "Practice" :> StrV("n/a")),
        !.academic_profile_summary =
            Obj(<< [subject |-> "Maths", currentGrade |-> "C", targetGrade |-> "B", standard_meg |-> "B"],
                   [subject |-> "N/A", currentGrade |-> None, targetGrade |-> None, standard_meg |-> None],
                   [subject |-> "Art", currentGrade |-> None, targetGrade |-> "A", standard_meg |-> None],
                   [subject |-> "Physics", currentGrade |-> "D", targetGrade |-> "C", standard_meg |-> "C"] >>),
        !.academic_megs = Obj([prior_attainment_score |-> NumV(68)]),
        !.student_reflections_and_goals =
            Obj(<< <<"rrc1_current", "I need to revise more">>, <<"goal1_current", "Not specified">>,
                   <<"goal2_current", "Get a B in Maths">>, <<"other", "something">> >>),
        !.object29_question_highlights =
            Obj([top_3 |-> << [category |-> "Effort", text |-> "I work hard"], [category |-> "Vision", text |-> None],
                              [category |-> "Systems", text |-> "I plan"] >>,
                 bottom_3 |-> <<>>]),
        !.student_overview_summary = "Sam works hard but revises passively.",
        !.academic_benchmark_analysis = "Maths is one grade below the MEG.",
        !.questionnaire_interpretation_and_reflection_summary = "Rarely plans ahead."]

\* a student whose level is not told, with a mixed profile
MixedContext ==
    [BareContext EXCEPT
        !.student_name = "Ada",
        !.vespa_profile = << ProfileEntry("Vision", NumV(70), "High"), ProfileEntry("Effort", NumV(50), "Medium"),
                             ProfileEntry("Systems", NumV(40), "Low"), ProfileEntry("Practice", NoneV, None),
                             ProfileEntry("Attitude", StrV("n/a"), "Medium"), ProfileEntry("Overall", NumV(10), "Low") >>,
        !.school_vespa_averages = Obj("Vision" :> NumV(70)),
        !.academic_megs = Obj([prior_attainment_score |-> NoneV]),
        !.object29_question_highlights =
            Obj([top_3 |-> <<>>, bottom_3 |-> << [category |-> "Practice", text |-> "I test myself"] >>])]

\* a Level 2 student of whom little else is told
Level2Context ==
    [BareContext EXCEPT
        !.student_level = "Level 2",
        !.vespa_profile = << ProfileEntry("Practice", NumV(30), "Low"), ProfileEntry("Systems", NumV(30), "Low") >>]

Contexts == {NoneObj, Obj(LowContext), Obj(MixedContext), Obj(Level2Context)}

\* current_user_message and current_tutor_message, missing, empty or told
Messages ==
    {None, "",
     "I keep highlighting my notes when I revise",
     "can you suggest an activity for revision practice",
     "what area to focus on",
     "hello",
     "how do I stay calm",
     "what activity helps with my timetable",
     "any activities?",
     "He struggles with revision (practice related)",
     "what should I ask him about his timetable",
     "help student think",
     "help with revision and his timetable"}

RECURSIVE History(_)
\* a chat history of d exchanges; the tutor liked the coach's answers
History(d) ==
    IF d = 0 THEN <<>>
    ELSE History(d - 1) \o << [role |-> "user", content |-> "message " \o ToString(d), is_liked |-> FALSE],
                              [role |-> "assistant", content |-> "answer " \o ToString(d), is_liked |-> TRUE] >>

Histories == {History(d) : d \in 0..MaxDepth}

\* student_knack_id and student_object10_record_id
StudentIds == {None, "5f3a"}

\* what the call of the language model gives: an answer, or None when it raises
LlmAnswers == {None, "  Let's look at how you revise.  "}

\* the knowledge files as loaded: n entries of each, in the order of the file or in the
\* opposite order
LoadedStatements(n, reversed) ==
    Obj([vespa_statements |-> [statements |-> IF reversed THEN Reverse(Take(StatementPool, n)) ELSE Take(StatementPool, n)]])
LoadedInsights(n, reversed) == Obj(IF reversed THEN Reverse(Take(InsightPool, n)) ELSE Take(InsightPool, n))
LoadedActivities(n, reversed) == Obj(IF reversed THEN Reverse(Take(ActivityPool, n)) ELSE Take(ActivityPool, n))
LoadedReflective(n, reversed) == IF reversed THEN Reverse(Take(ReflectivePool, n)) ELSE Take(ReflectivePool, n)

\* the state after loading: n entries of each knowledge file; with all of them loaded in
\* the order of the files, one file may have failed to load, or the API key be missing
InitChat ==
    /\ NoBenchmarkTables
    /\ NoFamilyTables
    /\ NoSchoolAverages
    /\ \E n \in 0..MaxCatalogue, reversed \in BOOLEAN, unloaded \in {"none", "coaching_kb", "activities", "all", "key"} :
        /\ unloaded # "none" => n = MaxCatalogue /\ ~reversed
        /\ VESPA_STATEMENTS_DATA = IF unloaded = "all" THEN NoneObj ELSE LoadedStatements(n, reversed)
        /\ COACHING_INSIGHTS_DATA = IF unloaded = "all" THEN NoneObj ELSE LoadedInsights(n, reversed)
        /\ VESPA_ACTIVITIES_DATA = IF unloaded \in {"all", "activities"} THEN NoneObj ELSE LoadedActivities(n, reversed)
        /\ coaching_kb = IF unloaded \in {"all", "coaching_kb"} THEN NoneObj ELSE Obj(CoachingQuestionsKb)
        /\ REFLECTIVE_STATEMENTS_DATA = IF unloaded = "all" THEN <<>> ELSE LoadedReflective(n, reversed)
        /\ OPENAI_API_KEY = IF unloaded = "key" THEN None ELSE "sk-test"
    /\ knack_chat_log = <<>>
    /\ call = NoCall

\* what a request did, in the order it did it: a message handed to
\* save_chat_message_to_knack (taken when Knack stored it), a call of the language model
\* (taken when it answered)
SaveEvent(author, message_text, knack_up) ==
    [event |-> "save", author |-> author, text |-> message_text, taken |-> knack_up]
LlmEvent(llm_answer) ==
    [event |-> "llm", author |-> "gpt-4o-mini", text |-> llm_answer, taken |-> llm_answer # None]

\* lines 1940-1959: the text of the answer, which stays the apology when the call raises
ai_response_text_of(llm_answer) ==
    IF llm_answer = None
    THEN "I'm having a little trouble formulating a response right now. Could you try rephrasing your question, or perhaps we can talk about something else?"
    ELSE Strip(llm_answer)

\* a variant that calls the language model before it saves the message of the student
answer_events_llm_first(current_user_message, llm_answer, knack_up) ==
    << LlmEvent(llm_answer),
       SaveEvent("Student", current_user_message, knack_up[1]),
       SaveEvent("My AI Coach", ai_response_text_of(llm_answer), knack_up[2]) >>

\* lines 1460, 1947 and 1961: the message is saved, the language model is called, the
\* answer is saved
answer_events(current_user_message, llm_answer, knack_up) ==
    << SaveEvent("Student", current_user_message, knack_up[1]),
       LlmEvent(llm_answer),
       SaveEvent("My AI Coach", ai_response_text_of(llm_answer), knack_up[2]) >>

\* Knack is up or down for the whole of a request
KnackUpOrDown == {<<TRUE, TRUE>>, <<FALSE, FALSE>>}

\* lines 1460 and 1940-1972 of src/app.py chat_turn: the language model answers or raises, and
\* Knack takes each of the two messages or does not; knack_ups is what Knack may do
chat_turn_answers(request, current_user_message, turn, knack_ups) ==
    {[knack_chat_log |->
         saved(saved(knack_chat_log, knack_up[1], "Student", current_user_message), knack_up[2],
               "My AI Coach", ai_response_text_of(llm_answer)),
      call |-> request @@
         [status |-> 200, answered |-> TRUE, turn |-> turn,
          events |-> answer_events(current_user_message, llm_answer, knack_up),
          response |-> [ai_response |-> ai_response_text_of(llm_answer),
                        suggested_activities_in_chat |-> turn.suggested_activities_for_response,
                        ai_message_knack_id |->
                            saved_id(saved(knack_chat_log, knack_up[1], "Student", current_user_message),
                                     knack_up[2])]]] :
        knack_up \in knack_ups, llm_answer \in LlmAnswers}

\* lines 1442-1972 of src/app.py chat_turn: the outcomes of the request recorded as request
chat_turn_outcomes(request, student_object3_id, current_user_message, chat_history, initial_ai_context, knack_ups) ==
    IF ~Truthy(student_object3_id) \/ ~Truthy(current_user_message)
    THEN {[knack_chat_log |-> knack_chat_log,
           call |-> request @@ [status |-> 400, answered |-> FALSE, events |-> <<>>,
                                response |-> [error |-> "Missing student ID or message"]]]}
    ELSE IF ~Truthy(OPENAI_API_KEY)
    THEN {[knack_chat_log |-> saved(knack_chat_log, knack_up[1], "Student", current_user_message),
           call |-> request @@
               [status |-> 200, answered |-> FALSE,
                events |-> <<SaveEvent("Student", current_user_message, knack_up[1])>>,
                response |-> [ai_response |-> "I am currently unable to respond (AI not configured). Your message has been logged."]]] :
             knack_up \in knack_ups}
    ELSE chat_turn_answers(request, current_user_message,
                           chat_turn_context(current_user_message, chat_history, initial_ai_context),
                           knack_ups)

\* chat_turn of src/app.py, lines 1442-1972: every outcome the request can have, as the
\* record of the call and the chat log it leaves
chat_turn(student_object3_id, current_user_message, chat_history, initial_ai_context, knack_ups) ==
    chat_turn_outcomes([op |-> "chat_turn", student_knack_id |-> student_object3_id,
                        current_user_message |-> current_user_message, chat_history |-> chat_history,
                        initial_ai_context |-> initial_ai_context],
                       student_object3_id, current_user_message, chat_history, initial_ai_context,
                       knack_ups)

\* POST /api/v1/chat_turn of src/app.py
chat_turn_call ==
    /\ call = NoCall
    /\ \E student_object3_id \in StudentIds, current_user_message \in Messages,
          chat_history \in Histories, initial_ai_context \in Contexts :
           \E outcome \in chat_turn(student_object3_id, current_user_message, chat_history, initial_ai_context,
                                    KnackUpOrDown) :
               /\ call' = outcome.call
               /\ knack_chat_log' = outcome.knack_chat_log
    /\ UNCHANGED kbs

\* chat_turn of src/knowledge_base/app.py, lines 1676-2020: every outcome the request can
\* have.  Without an initial context the name suggested_activities_for_response is never
\* bound, and the return statement raises NameError: the request ends in a 500.
kbapp_chat_turn(student_object10_id, current_tutor_message, chat_history, initial_ai_context) ==
    LET request == [op |-> "kbapp_chat_turn", student_object10_record_id |-> student_object10_id,
                    current_tutor_message |-> current_tutor_message, chat_history |-> chat_history,
                    initial_ai_context |-> initial_ai_context]
        retrieved == kbapp_retrieve(current_tutor_message,
                                    IF Falsy(initial_ai_context) THEN None ELSE initial_ai_context.val.student_level)
    IN  IF ~Truthy(student_object10_id) \/ ~Truthy(current_tutor_message)
        THEN {[knack_chat_log |-> knack_chat_log,
               call |-> request @@ [status |-> 400, answered |-> FALSE,
                                    response |-> [error |-> "Missing student_object10_record_id or current_tutor_message"]]]}
        ELSE IF ~Truthy(OPENAI_API_KEY)
        THEN {[knack_chat_log |-> saved(knack_chat_log, knack_up, "Tutor", current_tutor_message),
               call |-> request @@
                   [status |-> 200, answered |-> FALSE,
                    response |-> [ai_response |-> "I am currently unable to respond (AI not configured). Your message has been logged."]]] :
                 knack_up \in BOOLEAN}
        ELSE {LET log_1 == saved(knack_chat_log, knack_up, "Tutor", current_tutor_message)
                  turn == kbapp_chat_turn_context(current_tutor_message, chat_history, initial_ai_context,
                                                  IF knack_up THEN "Sam Lee" ELSE None, retrieved)
                  ai_response_text ==
                      IF llm_answer = None THEN "An error occurred while generating my response."
                      ELSE Strip(llm_answer)
              IN  [knack_chat_log |-> saved(log_1, knack_up, "AI Coach", ai_response_text),
                   call |-> request @@
                       IF turn.rag
                       THEN [status |-> 200, answered |-> TRUE, turn |-> turn,
                             response |-> [ai_response |-> ai_response_text,
                                           suggested_activities_in_chat |-> retrieved.suggested_activities_for_response,
                                           ai_message_knack_id |-> saved_id(log_1, knack_up)]]
                       ELSE [status |-> 500, answered |-> FALSE, turn |-> turn,
                             response |-> [error |-> "NameError"]]] :
                 knack_up \in BOOLEAN, llm_answer \in LlmAnswers}

\* POST /api/v1/chat_turn of src/knowledge_base/app.py
kbapp_chat_turn_call ==
    /\ call = NoCall
    /\ \E student_object10_id \in StudentIds, current_tutor_message \in Messages,
          chat_history \in Histories, initial_ai_context \in Contexts :
           \E outcome \in kbapp_chat_turn(student_object10_id, current_tutor_message, chat_history, initial_ai_context) :
               /\ call' = outcome.call
               /\ knack_chat_log' = outcome.knack_chat_log
    /\ UNCHANGED kbs

NextChat == chat_turn_call \/ kbapp_chat_turn_call

SpecChat == InitChat /\ [][NextChat]_vars


-----------------------------------------------------------------------------
(* Qualification normalisation: properties                                 *)

\* the closed set of qualification types, under the labels the code gives them
QualificationType ==
    {"A Level", "AS Level", "IB HL", "IB SL",
     "BTEC Level 3 Extended Diploma", "BTEC Level 3 Diploma", "BTEC Level 3 Subsidiary Diploma",
     "BTEC Level 3 Extended Certificate", "Pre-U Principal Subject", "Pre-U Short Course",
     "WJEC Level 3 Diploma", "WJEC Level 3 Certificate",
     "UAL Level 3 Diploma", "UAL Level 3 Extended Diploma",
     "CACHE Level 3 Award", "CACHE Level 3 Certificate", "CACHE Level 3 Diploma",
     "CACHE Level 3 Extended Diploma", "Unknown"}

\* the family-only labels src/app.py gives a type that names a family and no size
FamilyOnlyLabels == {"BTEC Level 3", "UAL Level 3", "CACHE Level 3"}

NormalizeOps == {"normalize_qualification_type", "kbapp_normalize_qualification_type"}

-----------------------------------------------------------------------------
(* Grade points: properties                                                *)

\* the grade label and the qualification type under which a call looks the points up
LookupGrade ==
    IF call.op = "get_points" THEN Upper(Strip(call.grade))
    ELSE IF call.grade = None THEN "U" ELSE Strip(call.grade)

LookupQualification ==
    IF call.op = "get_points" THEN normalize_qualification_type(call.qualification_type)
    ELSE call.qualification_type

\* the grade labels the loaded table holds for the qualification
GradesOfQualification ==
    IF grade_points_mapping_kb.none \/ LookupQualification \notin DOMAIN grade_points_mapping_kb.val
    THEN {}
    ELSE DOMAIN grade_points_mapping_kb.val[LookupQualification]

AliasPairs ==
    IF call.op = "get_points"
    THEN {<<"DIST*", "D*">>, <<"DIST", "D">>, <<"MERIT", "M">>, <<"PASS", "P">>}
    ELSE {<<"Dist*", "D*">>, <<"Dist", "D">>, <<"Merit", "M">>, <<"Pass", "P">>}

FoundDirectly == LookupGrade \in GradesOfQualification
FoundThroughAlias == \E a \in AliasPairs : a[1] = LookupGrade /\ a[2] \in GradesOfQualification
FoundThroughALevelFallback ==
    /\ call.op = "get_points"
    /\ LookupQualification = "A Level"
    /\ LookupGrade \in {"A*", "A", "B", "C", "D", "E", "U"}

PointsOps == {"get_points", "kbapp_get_points"}

\* C4: get_points returns an integer >= 0 for every grade, qualification type and state
\* of the grade points table; it returns 0 for a null, empty or "N/A" grade, and 0 when
\* the pair is found neither directly, nor through an alias, nor through the A Level
\* fallback.
C4_PointsTotalNonNegative ==
    call.op \in PointsOps =>
        /\ call.result \in Nat
        /\ call.grade \in {None, "", "N/A"} => call.result = 0
        /\ ~(FoundDirectly \/ FoundThroughAlias \/ FoundThroughALevelFallback) => call.result = 0

\* C4 witness: the table is loaded and lacks the qualification, the grade is a label the
\* A Level fallback knows, and the call has answered 0
C4_NotFoundGivesZero ==
    /\ call.op = "get_points"
    /\ ~Falsy(grade_points_mapping_kb)
    /\ LookupQualification \notin DOMAIN grade_points_mapping_kb.val
    /\ LookupQualification # "A Level"
    /\ LookupGrade = "A"
    /\ call.result = 0

-----------------------------------------------------------------------------
(* MEG resolution: properties                                              *)

MinKeys == IF call.op = "get_meg_for_prior_attainment" THEN possible_min_keys ELSE kbapp_possible_min_keys
MaxKeys == IF call.op = "get_meg_for_prior_attainment" THEN possible_max_keys ELSE kbapp_possible_max_keys

\* the band has a lower bound that reads as a number at most the score, and either no
\* upper bound or one that reads as a number above the score
BandHolds(score, band_info) ==
    LET lower == Float(BandValue(band_info, MinKeys))
        upper == BandValue(band_info, MaxKeys)
    IN  /\ lower.ok
        /\ lower.v <= score
        /\ upper = NoneV \/ (Float(upper).ok /\ score < Float(upper).v)

ScoreParsable == Float(call.prior_attainment_score).ok
Score == Float(call.prior_attainment_score).v

\* the positions of the bands of the call's table that hold the call's score
HoldingBands ==
    IF call.table.none \/ ~ScoreParsable THEN {}
    ELSE {i \in 1..Len(call.table.val) : BandHolds(Score, call.table.val[i])}

MegOps == {"get_meg_for_prior_attainment", "kbapp_get_meg_for_prior_attainment"}

\* C2: get_meg_for_prior_attainment answers for every score, table and percentile, and
\* when the table is null, the score is unparsable or no band holds the score the answer
\* is exactly ("N/A", 0): the grade "N/A" and 0 points.
C2_NoMatchGivesNA ==
    /\ call.op = "get_meg_for_prior_attainment" =>
           /\ call.result[1] \in STRING /\ call.result[2] \in Nat
           /\ HoldingBands = {} => call.result = <<"N/A", 0>>
    /\ call.op = "kbapp_get_meg_for_prior_attainment" =>
           /\ call.result \in STRING /\ call.points \in Nat
           /\ HoldingBands = {} => call.result = "N/A" /\ call.points = 0

\* C2 witness: a parsable score, a loaded table with bands of which one has an upper
\* bound that is no number, no band holding the score, and the answer ("N/A", 0)
C2_NoBandHolds ==
    /\ call.op = "get_meg_for_prior_attainment"
    /\ ScoreParsable
    /\ ~Falsy(call.table)
    /\ \E i \in 1..Len(call.table.val) :
          LET upper == BandValue(call.table.val[i], possible_max_keys)
          IN  upper # NoneV /\ ~Float(upper).ok
    /\ HoldingBands = {}
    /\ call.result = <<"N/A", 0>>


\* the MEG grade of the first band, in table order, that holds the score
FirstHoldingBandGrade ==
    LET band_info == call.table.val[Min(HoldingBands)]
    IN  IF call.op = "get_meg_for_prior_attainment"
        THEN meg_aspiration_grade(band_info)
        ELSE kbapp_meg_aspiration(band_info, call.qualification_type, call.qual_details)

\* C3: for a parsable score and a loaded table, MEG resolution returns the MEG grade of
\* the first band in table order with lower bound <= score < upper bound, a band without
\* upper bound being open-ended; a later band is never returned when an earlier one holds.
C3_FirstHoldingBand ==
    (call.op \in MegOps /\ HoldingBands # {}) =>
        IF call.op = "get_meg_for_prior_attainment"
        THEN call.result[1] = FirstHoldingBandGrade
        ELSE call.result = FirstHoldingBandGrade

\* C3 for the student coach alone, on every table: the grade and the points of the first
\* band holding the score
C3_StudentCoachFirstHoldingBand ==
    (call.op = "get_meg_for_prior_attainment" /\ HoldingBands # {}) =>
        call.result = <<FirstHoldingBandGrade,
                        get_points(FirstHoldingBandGrade, normalize_qualification_type(call.qualification_type))>>

\* C3: the tutor backend has answered "N/A" although a band of its table holds the score
C3_TutorMissesHoldingBand ==
    /\ call.op = "kbapp_get_meg_for_prior_attainment"
    /\ HoldingBands # {}
    /\ call.result = "N/A"
    /\ FirstHoldingBandGrade # "N/A"

-----------------------------------------------------------------------------
(* Chat turns: what a turn puts into the context it hands to the language   *)
(* model                                                                    *)

ChatOps == {"chat_turn", "kbapp_chat_turn"}

\* the request was a chat turn that went as far as retrieval: id and message present, the
\* API key set and, for the tutor backend, an initial context in the payload
ReachesRetrieval ==
    /\ call.op \in ChatOps
    /\ Truthy(IF call.op = "chat_turn" THEN call.student_knack_id ELSE call.student_object10_record_id)
    /\ Truthy(IF call.op = "chat_turn" THEN call.current_user_message ELSE call.current_tutor_message)
    /\ Truthy(OPENAI_API_KEY)
    /\ call.op = "kbapp_chat_turn" => ~Falsy(call.initial_ai_context)

\* the turn retrieved, called the language model and returned its 200
Answered == call.op \in ChatOps /\ call.answered

\* the parts of the context the turn assembled
ContextParts ==
    IF call.op = "chat_turn" THEN call.turn.rag_context_parts ELSE call.turn.retrieved.retrieved_context_parts

\* the number of parts of one kind in the context
PartCount(kind) == Cardinality({i \in 1..Len(ContextParts) : ContextParts[i].kind = kind})

\* the four source kinds, each with the name of its section
SectionOf == [insight |-> "insights", activity |-> "activities", statement |-> "statements", question |-> "questions"]
SourceKinds == DOMAIN SectionOf

TotalItems == PartCount("insight") + PartCount("activity") + PartCount("statement") + PartCount("question")

\* the number of earlier user messages in the history of the request
PriorUserTurnCount == Cardinality({i \in 1..Len(call.chat_history) : call.chat_history[i].role = "user"})

\* no activity in the text of the context, none in the list returned to the front end
NoActivityItem == PartCount("activity") = 0 /\ call.response.suggested_activities_in_chat = <<>>

\* C5 as the specification states it: a turn of the student coach with fewer than two
\* earlier user messages and no explicit request for an activity has no activity item, in
\* the context text or in the returned list
C5_NoActivityBeforeThirdTurn ==
    (Answered /\ call.op = "chat_turn" /\ PriorUserTurnCount < 2 /\ ~call.turn.user_asking_for_activity)
        => NoActivityItem

\* C5: a turn of the student coach with no earlier user message and no explicit request
\* for an activity has no activity item and no activities section, in the context text or
\* in the returned list; at most a note that linked activities exist
C5_NoActivityInFirstTurn ==
    (Answered /\ call.op = "chat_turn" /\ PriorUserTurnCount = 0 /\ ~call.turn.user_asking_for_activity)
        => NoActivityItem /\ PartCount("activities_header") = 0

\* C5 witness: a first turn without a request, for an element whose coaching questions
\* link activities: the context notes that they exist and names none
C5_FirstTurnNotesLinkedActivities ==
    /\ Answered /\ call.op = "chat_turn"
    /\ PriorUserTurnCount = 0 /\ ~call.turn.user_asking_for_activity
    /\ PartCount("coach_note") = 1
    /\ PartCount("question") > 0
    /\ NoActivityItem

\* the number of guidance blocks in the system prompt; every block is headed by a line
\* that carries the word PHASE, which the rest of the prompt does not
GuidanceBlocks ==
    LET content == call.turn.messages_for_llm[1].content
    IN  Cardinality({i \in 1..(Len(content) - 4) : SubSeq(content, i, i + 4) = "PHASE"})

\* C6: an answered turn of the student coach carries exactly one conversation-phase
\* guidance block in its system prompt, whatever was retrieved
C6_ExactlyOneGuidanceBlock ==
    (Answered /\ call.op = "chat_turn") => GuidanceBlocks = 1

\* C6: with the knowledge files loaded and holding entries, the student asked for an
\* activity, none was retrieved, and the system prompt carries no guidance block
C6_RequestWithoutGuidance ==
    /\ Answered /\ call.op = "chat_turn"
    /\ ~Falsy(coaching_kb) /\ ~Falsy(VESPA_ACTIVITIES_DATA) /\ Len(VESPA_ACTIVITIES_DATA.val) = MaxCatalogue
    /\ call.turn.user_asking_for_activity
    /\ call.turn.suggested_activities_for_response = <<>>
    /\ GuidanceBlocks = 0

\* C7 as the specification states it: insights, activities, statements and coaching
\* questions in the context of one turn number at most five together
C7_TotalAtMostFive == Answered => TotalItems <= 5

\* C7: the items of one turn number at most the sum of the caps of the four kinds: twelve
\* in the student coach (4 statements, 3 insights, 3 questions, 2 activities), ten in the
\* tutor backend (2 insights, 3 activities, 2 statements, 3 questions)
C7_TotalAtMostSumOfCaps ==
    Answered => TotalItems <= (IF call.op = "chat_turn" THEN 12 ELSE 10)

\* C7 witness: a turn of the student coach with twelve items in its context
C7_TwelveItems == Answered /\ call.op = "chat_turn" /\ TotalItems = 12

\* C8 as the specification states it: no source kind has more than three items in the
\* context of one turn
C8_EachKindAtMostThree == Answered => \A kind \in SourceKinds : PartCount(kind) <= 3

\* the most items of each kind a turn takes
StudentCoachCaps == [insight |-> 3, activity |-> 2, statement |-> 4, question |-> 3]
TutorBackendCaps == [insight |-> 2, activity |-> 3, statement |-> 2, question |-> 3]

\* C8: each source kind stays within its own cap: in the student coach 3 insights,
\* 2 activities, 4 statements and 3 questions; in the tutor backend 2 insights,
\* 3 activities, 2 statements and 3 questions
C8_EachKindWithinItsCap ==
    Answered => \A kind \in SourceKinds :
                    PartCount(kind) <= (IF call.op = "chat_turn" THEN StudentCoachCaps ELSE TutorBackendCaps)[kind]

\* C8 witness: a turn of the student coach with four VESPA statements in its context
C8_FourStatements == Answered /\ call.op = "chat_turn" /\ PartCount("statement") = 4

\* the place the entry of a name has in a catalogue
PlaceOf(catalogue, name) == Min({i \in 1..Len(catalogue) : catalogue[i].name = name})

\* a comes before b in the ranking: by the higher score, or on equal scores by the
\* earlier place in the catalogue
RanksBefore(a, b) == a.score > b.score \/ (a.score = b.score /\ a.place < b.place)

\* the entries that cleared the threshold, as the set of their scores, places and ids
Candidates(scored, catalogue) ==
    {[score |-> scored[i].score, place |-> PlaceOf(catalogue, scored[i].name), id |-> scored[i].id] :
        i \in 1..Len(scored)}

\* the list surfaced (by the names of its items) is taken from the candidates, is in
\* ranking order, and no candidate left out, unless it repeats the id of an item
\* surfaced, ranks before an item surfaced
Ranked(scored, surfaced_names, catalogue) ==
    LET candidates == Candidates(scored, catalogue)
        place(k) == PlaceOf(catalogue, surfaced_names[k])
        at(k) == CHOOSE c \in candidates : c.place = place(k)
        surfaced == 1..Len(surfaced_names)
    IN  /\ \A k \in surfaced : \E c \in candidates : c.place = place(k)
        /\ \A i, j \in surfaced : i < j => RanksBefore(at(i), at(j))
        /\ \A c \in candidates :
              (\A k \in surfaced : at(k).id # c.id) => \A k \in surfaced : RanksBefore(at(k), c)

\* the scored lists of a turn, each entry with its score, name and id
ScoredInsights ==
    LET scored == call.turn.temp_insights_with_scores
    IN  [i \in 1..Len(scored) |-> [score |-> scored[i].relevance, name |-> scored[i].name, id |-> scored[i].name]]
ScoredFallbackActivities ==
    LET scored == call.turn.scored_activities_list
    IN  [i \in 1..Len(scored) |->
            [score |-> scored[i].relevance, name |-> scored[i].activity.name, id |-> scored[i].activity.id]]
ScoredTutorActivities ==
    LET matched == call.turn.retrieved.all_matched_activities_with_level_info
    IN  [i \in 1..Len(matched) |->
            [score |-> sort_key_activities(matched[i], call.initial_ai_context.val.student_level),
             name |-> matched[i].name, id |-> matched[i].id]]

\* the names of a list of items
NamesOf(items) == [i \in 1..Len(items) |-> items[i].name]

\* C9: the scored lists a turn surfaces (the insights and the keyword-matched activities
\* of the student coach, the activities of the tutor backend) are in order of score
\* descending, items of equal score in the order of the catalogue, and the items cut off
\* by the cap rank after the items kept
C9_SurfacedInRankingOrder ==
    Answered =>
        IF call.op = "chat_turn"
        THEN /\ Ranked(ScoredInsights, NamesOf(call.turn.relevant_coaching_insights_for_chat),
                       COACHING_INSIGHTS_DATA.val)
             /\ call.turn.scored_activities_list # <<>> =>
                    Ranked(ScoredFallbackActivities, NamesOf(call.response.suggested_activities_in_chat),
                           VESPA_ACTIVITIES_DATA.val)
        ELSE call.turn.retrieved.all_matched_activities_with_level_info # <<>> =>
                 Ranked(ScoredTutorActivities, NamesOf(call.response.suggested_activities_in_chat),
                        VESPA_ACTIVITIES_DATA.val)

\* C9 witness: more than three insights cleared the threshold, the third and the fourth
\* on the same score, so that the order of the catalogue decides which one is kept
C9_TieAtTheCut ==
    /\ Answered /\ call.op = "chat_turn"
    /\ Len(call.turn.temp_insights_with_scores) > 3
    /\ call.turn.temp_insights_with_scores[3].relevance = call.turn.temp_insights_with_scores[4].relevance
    /\ Len(call.turn.relevant_coaching_insights_for_chat) = 3

HasPlaceholder(kind) == call.op = "kbapp_chat_turn" /\ kind = "activity" /\ ~Falsy(VESPA_ACTIVITIES_DATA)

-----------------------------------------------------------------------------
(* generate_student_insights_with_llm of src/app.py: the prompt it assembles *)
(* from the student's data, and what it returns                             *)

RECURSIVE Replace(_, _, _)
\* s.replace(old, new)
Replace(s, old, new) ==
    IF Len(s) < Len(old) \/ old = "" THEN s
    ELSE IF SubSeq(s, 1, Len(old)) = old THEN new \o Replace(SubSeq(s, Len(old) + 1, Len(s)), old, new)
    ELSE SubSeq(s, 1, 1) \o Replace(SubSeq(s, 2, Len(s)), old, new)

\* d.get(key, default) on a dict written as the list of its <<key, value>> entries
EntryValue(entries, key, default) ==
    IF \E i \in 1..Len(entries) : entries[i][1] = key
    THEN entries[CHOOSE i \in 1..Len(entries) : entries[i][1] = key][2]
    ELSE default

\* the elements get_school_vespa_averages averages, in the order of its dict (lines 452-481)
averaged_vespa_elements == <<"Vision", "Effort", "Systems", "Practice", "Attitude", "Overall">>

\* lines 741-746
insights_profile_parts(vespa_profile) ==
    <<Part("profile_header", "\n--- My Current VESPA Profile (Vision, Effort, Systems, Practice, Attitude) ---")>> \o
    Flatten([i \in 1..Len(vespa_profile) |->
        IF vespa_profile[i].el = "Overall" THEN <<>>
        ELSE <<Part("profile", "- " \o vespa_profile[i].el \o ": My score is " \o ScoreText(vespa_profile[i])
                                   \o "/10, which is considered '" \o ProfileText(vespa_profile[i]) \o "'.")>>])

\* lines 748-751
insights_averages_parts(school_averages) ==
    IF Falsy(school_averages) THEN <<>>
    ELSE <<Part("averages_header", "\n--- School's Average VESPA Scores (For Comparison) ---")>> \o
         Flatten([i \in 1..Len(averaged_vespa_elements) |->
            IF averaged_vespa_elements[i] \in DOMAIN school_averages.val
            THEN <<Part("averages", "- " \o averaged_vespa_elements[i] \o " (School Avg): "
                                        \o StrOfScalar(school_averages.val[averaged_vespa_elements[i]]) \o "/10")>>
            ELSE <<>>])

\* lines 759-763: the subjects shown, of the first three
insights_subject_parts(subjects) ==
    Flatten([i \in 1..Len(subjects) |->
        IF Truthy(subjects[i].subject) /\ subjects[i].subject # "N/A"
        THEN <<Part("academic",
                    "- Subject: " \o subjects[i].subject
                        \o ", My Current Grade: " \o OrDefault(subjects[i].currentGrade, "N/A")
                        \o ", My Target: " \o OrDefault(subjects[i].targetGrade, "N/A")
                        \o (IF Truthy(subjects[i].standard_meg)
                            THEN ", My Standard Expected Grade (MEG): " \o subjects[i].standard_meg ELSE ""))>>
        ELSE <<>>])

\* lines 764-767: the subjects shown or, when none is, the line that says so
insights_subjects_or_placeholder(shown) ==
    IF shown = <<>>
    THEN <<Part("academic_placeholder",
                "  It looks like my detailed subject information isn't available right now.")>>
    ELSE shown

\* lines 753-767
insights_academic_parts(academic_profile_summary) ==
    <<Part("academic_header", "\n--- My Academic Profile (First 3 Subjects with My Standard Expected Grade) ---")>> \o
    (IF Falsy(academic_profile_summary) THEN <<>>
     ELSE IF /\ ~StartsWith(OrDefault(academic_profile_summary.val[1].subject, ""), "Academic profile not found")
             /\ ~StartsWith(OrDefault(academic_profile_summary.val[1].subject, ""), "No academic subjects parsed")
     THEN insights_subjects_or_placeholder(insights_subject_parts(Take(academic_profile_summary.val, 3)))
     ELSE <<Part("academic_placeholder",
                 "  My detailed academic profile summary isn't available at the moment.")>>)

\* lines 769-774
insights_megs_parts(academic_megs) ==
    IF Falsy(academic_megs) THEN <<>>
    ELSE <<Part("megs_header", "\n--- My Academic Benchmarks (Based on My Prior Attainment) ---"),
           Part("megs", "  My GCSE Prior Attainment Score: "
                            \o (IF academic_megs.val.prior_attainment_score = NoneV THEN "N/A"
                                ELSE StrOfScalar(academic_megs.val.prior_attainment_score)))>> \o
         (IF Truthy(academic_megs.val.aLevel_meg_grade_75th) /\ academic_megs.val.aLevel_meg_grade_75th # "N/A"
          THEN <<Part("megs", "  For A-Levels, students with similar prior scores typically achieve around a grade '"
                                  \o academic_megs.val.aLevel_meg_grade_75th
                                  \o "' (this is the standard MEG or top 25% benchmark).")>>
          ELSE <<>>)

\* lines 782-785: the reflection and the goal of the current cycle, None where the
\* student's data has none
current_rrc_val(reflections, current_cycle) ==
    IF Falsy(reflections) THEN None
    ELSE EntryValue(reflections.val, "rrc" \o ToString(current_cycle) \o "_comment", None)

current_goal_val(reflections, current_cycle) ==
    IF Falsy(reflections) THEN None
    ELSE EntryValue(reflections.val, "goal" \o ToString(current_cycle), None)

\* lines 787 and 791: whether the value is told
reflection_told(val) == Truthy(val) /\ val # "Not specified"

\* lines 777-778, 788 and 792: current_rrc_text_student and current_goal_text_student
reflection_text(val) == IF reflection_told(val) THEN Replace(Take(val, 300), "\n", " ") ELSE "Not specified"

\* lines 776-795
insights_reflections_parts(reflections, current_cycle) ==
    <<Part("reflections_header", "\n--- My Reflections & Goals (Current Cycle) ---")>> \o
    (IF reflection_told(current_rrc_val(reflections, current_cycle))
     THEN <<Part("reflection", "- My Current Reflection (RRC" \o ToString(current_cycle) \o "): "
                                   \o reflection_text(current_rrc_val(reflections, current_cycle)) \o "...")>>
     ELSE <<>>) \o
    (IF reflection_told(current_goal_val(reflections, current_cycle))
     THEN <<Part("reflection", "- My Current Goal (Goal " \o ToString(current_cycle) \o "): "
                                   \o reflection_text(current_goal_val(reflections, current_cycle)) \o "...")>>
     ELSE <<>>) \o
    (IF ~reflection_told(current_rrc_val(reflections, current_cycle))
        /\ ~reflection_told(current_goal_val(reflections, current_cycle))
     THEN <<Part("reflections_placeholder",
                 "  I haven't specified any reflections or goals for the current cycle, or they are not available.")>>
     ELSE <<>>)

\* lines 803 and 807: the line of one statement of the questionnaire highlights; every
\* statement carries its score
insights_highlight_items(items) ==
    [i \in 1..Len(items) |->
        Part("highlight", "    - Score " \o ToString(items[i].score)
                              \o "/5 (" \o OrDefault(items[i].category, "N/A") \o "): \""
                              \o OrDefault(items[i].text, "N/A") \o "\"")]

\* lines 797-809
insights_highlights_parts(obj29_highlights) ==
    <<Part("highlights_header", "\n--- My Key Questionnaire Insights (My Top & Bottom Scoring Statements) ---")>> \o
    (IF Falsy(obj29_highlights)
     THEN <<Part("highlights_placeholder", "  My top/bottom questionnaire statement highlights are not available.")>>
     ELSE (IF obj29_highlights.val.top_3 # <<>>
           THEN <<Part("highlight", "  Statements I Most Agreed With (1-5 scale, 5=Strongly Agree):")>>
                \o insights_highlight_items(obj29_highlights.val.top_3)
           ELSE <<>>) \o
          (IF obj29_highlights.val.bottom_3 # <<>>
           THEN <<Part("highlight", "  Statements I Least Agreed With (Areas to think about):")>>
                \o insights_highlight_items(obj29_highlights.val.bottom_3)
           ELSE <<>>))

\* lines 805-807: whether writing the statements least agreed with raises:
\* q_data['category'] or q_data['text'] of a statement without that key
highlights_raise(obj29_highlights) ==
    /\ ~Falsy(obj29_highlights)
    /\ \E i \in 1..Len(obj29_highlights.val.bottom_3) :
           \/ obj29_highlights.val.bottom_3[i].category = None
           \/ obj29_highlights.val.bottom_3[i].text = None

\* lines 814-817: how many statements were rated r
response_count(all_scored_questionnaire_statements, r) ==
    Cardinality({i \in 1..Len(all_scored_questionnaire_statements) : all_scored_questionnaire_statements[i].score = r})

\* lines 811-825
insights_distribution_parts(all_scored_questionnaire_statements) ==
    <<Part("distribution_header", "\n--- My Overall Questionnaire Statement Response Distribution ---")>> \o
    (IF all_scored_questionnaire_statements # <<>>
     THEN <<Part("distribution", "  - Statements I rated '1' (e.g., Strongly Disagree): "
                                     \o ToString(response_count(all_scored_questionnaire_statements, 1))),
            Part("distribution", "  - Statements I rated '2': "
                                     \o ToString(response_count(all_scored_questionnaire_statements, 2))),
            Part("distribution", "  - Statements I rated '3': "
                                     \o ToString(response_count(all_scored_questionnaire_statements, 3))),
            Part("distribution", "  - Statements I rated '4': "
                                     \o ToString(response_count(all_scored_questionnaire_statements, 4))),
            Part("distribution", "  - Statements I rated '5' (e.g., Strongly Agree): "
                                     \o ToString(response_count(all_scored_questionnaire_statements, 5)))>>
     ELSE <<Part("distribution_placeholder",
                 "  My detailed questionnaire response distribution data is not available.")>>)

RECURSIVE lowest_vespa_element_student(_, _, _)
\* lines 836-847: the first element of the strictly lowest score, "Overall" and
\* unreadable scores left out; an absent score counts as 10
lowest_vespa_element_student(vespa_profile_for_rag, lowest_score_student, lowest) ==
    IF vespa_profile_for_rag = <<>> THEN lowest
    ELSE IF /\ Head(vespa_profile_for_rag).el # "Overall"
            /\ Head(vespa_profile_for_rag).score_1_to_10 = NoneV
            /\ 100 < lowest_score_student
    THEN lowest_vespa_element_student(Tail(vespa_profile_for_rag), 100, Head(vespa_profile_for_rag).el)
    ELSE IF /\ Head(vespa_profile_for_rag).el # "Overall"
            /\ Float(Head(vespa_profile_for_rag).score_1_to_10).ok
            /\ Float(Head(vespa_profile_for_rag).score_1_to_10).v < lowest_score_student
    THEN lowest_vespa_element_student(Tail(vespa_profile_for_rag),
                                      Float(Head(vespa_profile_for_rag).score_1_to_10).v,
                                      Head(vespa_profile_for_rag).el)
    ELSE lowest_vespa_element_student(Tail(vespa_profile_for_rag), lowest_score_student, lowest)

\* lines 827-852: the tasks set to the coach and, with a lowest element, the ideas asked
\* for.  The fixed text of the tasks is cut to its heading.
insights_tasks_parts(lowest) ==
    <<Part("tasks", "\n\n--- Coach, please help me with these things: ---")>> \o
    (IF Truthy(lowest)
     THEN <<Part("ideas", "\n\n--- Some Ideas to Consider ---"),
            Part("ideas", "My lowest VESPA score seems to be in '" \o lowest
                              \o "'. Can you give me some general tips or reflective questions for this area, and perhaps suggest a simple, actionable goal related to it?")>>
     ELSE <<>>)

\* line 870
common_filter_words ==
    {"i", "me", "my", "is", "a", "the", "and", "to", "of", "it", "in", "for", "on", "with", "as", "an", "at",
     "by", "you", "your", "what", "how", "help", "can", "some", "this", "that", "area", "areas", "score", "scores"}

\* lines 865-866: the first five words of the text of every highlighted statement
highlight_keywords(items) == Flatten([i \in 1..Len(items) |-> Take(Split(Lower(OrDefault(items[i].text, ""))), 5)])

\* lines 855-866: whether collecting the keywords raises: .lower() of a reflection or a
\* goal that the student's record holds as None (the key is there, its value is not)
keywords_raise(student_data_dict) ==
    /\ ~Falsy(student_data_dict.student_reflections_and_goals)
    /\ \/ EntryValue(student_data_dict.student_reflections_and_goals.val,
                     "rrc" \o ToString(student_data_dict.current_cycle) \o "_comment", "") = None
       \/ EntryValue(student_data_dict.student_reflections_and_goals.val,
                     "goal" \o ToString(student_data_dict.current_cycle), "") = None

\* lines 858-866: keywords_from_student_data, when collecting them does not raise
keywords_from_student_data(student_data_dict, lowest) ==
    <<Lower(OrDefault(student_data_dict.student_name, "Student")), IF Truthy(lowest) THEN Lower(lowest) ELSE "">> \o
    (IF Falsy(student_data_dict.student_reflections_and_goals) THEN <<>>
     ELSE Take(Split(Lower(EntryValue(student_data_dict.student_reflections_and_goals.val,
                                      "rrc" \o ToString(student_data_dict.current_cycle) \o "_comment", ""))), 10)
          \o Take(Split(Lower(EntryValue(student_data_dict.student_reflections_and_goals.val,
                                         "goal" \o ToString(student_data_dict.current_cycle), ""))), 10)) \o
    (IF Falsy(student_data_dict.object29_question_highlights) THEN <<>>
     ELSE highlight_keywords(student_data_dict.object29_question_highlights.val.top_3
                             \o student_data_dict.object29_question_highlights.val.bottom_3))

\* line 871
meaningful_keywords(keywords) ==
    {keywords[i] : i \in {j \in 1..Len(keywords) : keywords[j] \notin common_filter_words /\ Len(keywords[j]) > 3}}

\* lines 875-880: insight_text_corpus; the catalogue has no implications_for_tutor
insight_text_corpus(insight) ==
    Lower(insight.name) \o " " \o Lower(insight.description) \o " " \o "" \o " " \o Lower(Join(insight.keywords, " "))

\* lines 874-885: the first three insights one of the keywords occurs in
insights_for_prompt(keywords) ==
    Take(Keep(COACHING_INSIGHTS_DATA.val,
              {i \in 1..Len(COACHING_INSIGHTS_DATA.val) :
                  \E m_kw \in keywords : Contains(insight_text_corpus(COACHING_INSIGHTS_DATA.val[i]), m_kw)}), 3)

\* lines 887-891
insights_principles_parts(relevant_coaching_insights) ==
    IF relevant_coaching_insights = <<>> THEN <<>>
    ELSE <<Part("principles_header", "\n\n--- General Coaching Principles (For AI's Inspiration) ---"),
           Part("principles_header", "Remember to draw inspiration from general coaching principles.")>> \o
         [i \in 1..Len(relevant_coaching_insights) |->
             Part("principle", "- Insight: " \o relevant_coaching_insights[i].name \o ". Focus: "
                                   \o Take(relevant_coaching_insights[i].description, 100) \o "...")]

\* lines 893-896; each note is cut to its first sentence
insights_knowledge_notes ==
    (IF ~Falsy(coaching_kb)
     THEN <<Part("knowledge_note", "\n(For the AI: You also have access to a coaching questions knowledge base.")>>
     ELSE <<>>) \o
    (IF REFLECTIVE_STATEMENTS_DATA # <<>>
     THEN <<Part("knowledge_note", "(For the AI: You also have access to a list of general reflective statements.")>>
     ELSE <<>>)

\* lines 914-916: the reflection and the goal as they are quoted in the reminder
cleaned_placeholder(text) == Replace(Replace(Replace(Take(text, 100), "\n", " "), "'", "\\'"), "\"", "\\\"")

\* lines 898-916: the structure asked of the answer, cut to its heading, and the reminder
insights_output_parts(reflections, current_cycle) ==
    <<Part("output_structure", "\n\n--- REQUIRED OUTPUT STRUCTURE (JSON Object) ---"),
      Part("reminder", "REMEMBER to replace RRC_COMMENT_PLACEHOLDER with: '"
                           \o cleaned_placeholder(reflection_text(current_rrc_val(reflections, current_cycle)))
                           \o "...' and GOAL_COMMENT_PLACEHOLDER with: '"
                           \o cleaned_placeholder(reflection_text(current_goal_val(reflections, current_cycle)))
                           \o "...'")>>

\* lines 738-916: prompt_parts, lowest being lowest_vespa_element_student
student_prompt_parts(student_data_dict, lowest) ==
    <<Part("intro", "You are My VESPA AI Coach. I am '" \o OrDefault(student_data_dict.student_name, "Student")
                        \o "'. This is my data:"),
      Part("intro", "Current Cycle: " \o ToString(student_data_dict.current_cycle) \o ".")>> \o
    insights_profile_parts(student_data_dict.vespa_profile) \o
    insights_averages_parts(student_data_dict.school_vespa_averages) \o
    insights_academic_parts(student_data_dict.academic_profile_summary) \o
    insights_megs_parts(student_data_dict.academic_megs) \o
    insights_reflections_parts(student_data_dict.student_reflections_and_goals, student_data_dict.current_cycle) \o
    insights_highlights_parts(student_data_dict.object29_question_highlights) \o
    insights_distribution_parts(student_data_dict.all_scored_questionnaire_statements) \o
    insights_tasks_parts(lowest) \o
    (IF Falsy(COACHING_INSIGHTS_DATA) THEN <<>>
     ELSE insights_principles_parts(
              insights_for_prompt(meaningful_keywords(keywords_from_student_data(student_data_dict, lowest))))) \o
    insights_knowledge_notes \o
    insights_output_parts(student_data_dict.student_reflections_and_goals, student_data_dict.current_cycle)

\* the keys of the answer the function fills in (lines 954-962)
expected_keys_student ==
    {"student_overview_summary", "chart_comparative_insights",
     "questionnaire_interpretation_and_reflection_summary", "academic_benchmark_analysis",
     "suggested_student_goals", "academic_quote", "academic_performance_ai_summary"}

\* lines 1000-1010: the dict returned when an exception reaches the outer handler
insights_after_exception ==
    [k \in expected_keys_student |->
        CASE k = "student_overview_summary" -> "An unexpected error occurred while generating AI insights."
          [] k = "chart_comparative_insights" -> "Insights unavailable due to an error."
          [] k = "questionnaire_interpretation_and_reflection_summary" ->
                 "Questionnaire interpretation unavailable due to an error."
          [] k = "academic_benchmark_analysis" -> "Academic benchmark analysis unavailable due to an error."
          [] k = "suggested_student_goals" -> "Goal suggestions unavailable due to an error."
          [] k = "academic_quote" -> "Quote unavailable due to an error."
          [] OTHER -> "Personalized academic summary unavailable due to an error."]

\* lines 936-997: what is returned for what the language model did on the last attempt
\* made.  An answer of kind "json" carries some of the expected keys, "invalid" is an
\* answer that is no JSON, "raises" a call that raised.  The two handlers of the last
\* attempt (lines 985 and 989) read expected_keys_student, which is bound only after an
\* answer was parsed (line 954): they raise NameError, which the outer handler takes.
insights_of_answer(llm_answer) ==
    IF llm_answer.kind \in {"invalid", "raises"}
    THEN insights_after_exception
    ELSE [k \in expected_keys_student |->
             IF k \in llm_answer.keys THEN "answer for " \o k
             ELSE "Error: AI response for '" \o k \o "' was not provided."]

\* max_retries of line 935
max_retries == 2

\* lines 936-997: the calls of the language model one invocation can make, as the answers
\* they get in turn: the loop returns at the first answer that is a JSON object, and
\* goes on to the next attempt after any other answer until max_retries attempts were made
llm_attempts(llm_answers) ==
    {attempts \in UNION {[1..n -> llm_answers] : n \in 1..max_retries} :
        /\ \A i \in 1..(Len(attempts) - 1) : attempts[i].kind # "json"
        /\ Len(attempts) < max_retries => attempts[Len(attempts)].kind = "json"}

\* lines 716-725: the dict returned when the API key is not set
insights_not_configured(student_data_dict) ==
    [student_overview_summary |-> "AI insights for " \o OrDefault(student_data_dict.student_name, "you")
                                      \o " are currently unavailable (AI not configured).",
     chart_comparative_insights |-> "Insights unavailable (AI not configured).",
     questionnaire_interpretation_and_reflection_summary |->
         "Questionnaire interpretation unavailable (AI not configured).",
     academic_benchmark_analysis |-> "Academic benchmark analysis unavailable (AI not configured).",
     suggested_student_goals |-> "Goal suggestions unavailable (AI not configured)."]

\* generate_student_insights_with_llm of src/app.py, lines 714-1010: every outcome of the
\* call, llm_answers being what the language model may do
generate_student_insights_with_llm(student_data_dict, llm_answers) ==
    IF ~Truthy(OPENAI_API_KEY)
    THEN {[op |-> "generate_student_insights_with_llm", student_data_dict |-> student_data_dict,
           assembled |-> FALSE, raised |-> FALSE, llm_calls |-> 0,
           insights |-> insights_not_configured(student_data_dict)]}
    ELSE IF \/ highlights_raise(student_data_dict.object29_question_highlights)
            \/ ~Falsy(COACHING_INSIGHTS_DATA) /\ keywords_raise(student_data_dict)
    THEN {[op |-> "generate_student_insights_with_llm", student_data_dict |-> student_data_dict,
           assembled |-> FALSE, raised |-> TRUE, llm_calls |-> 0,
           insights |-> insights_after_exception]}
    ELSE {[op |-> "generate_student_insights_with_llm", student_data_dict |-> student_data_dict,
           assembled |-> TRUE, raised |-> FALSE,
           prompt_parts |-> student_prompt_parts(student_data_dict,
                                lowest_vespa_element_student(student_data_dict.vespa_profile, 110, None)),
           llm_calls |-> Len(attempts),
           insights |-> insights_of_answer(attempts[Len(attempts)])] :
              attempts \in llm_attempts(llm_answers)}

-----------------------------------------------------------------------------
(* The student's data with every optional input there or missing            *)

\* the data of a student every optional input of whom is there
FullStudentData ==
    [student_name |-> "Sam Lee", student_level |-> "Level 3", current_cycle |-> 1,
     vespa_profile |-> LowContext.vespa_profile,
     school_vespa_averages |-> LowContext.school_vespa_averages,
     academic_profile_summary |-> LowContext.academic_profile_summary,
     academic_megs |-> Obj([prior_attainment_score |-> NumV(68), aLevel_meg_grade_75th |-> "B"]),
     student_reflections_and_goals |->
         Obj(<< <<"rrc1_comment", "I need to revise\nmore for Maths">>, <<"goal1", "Get a 'B' in Maths">> >>),
     object29_question_highlights |->
         Obj([top_3 |-> << [score |-> 5, category |-> "Effort", text |-> "I work hard at revision"] >>,
              bottom_3 |-> << [score |-> 1, category |-> "Systems", text |-> "I plan my timetable"] >>]),
     all_scored_questionnaire_statements |->
         << [score |-> 1, category |-> "Systems", text |-> "I plan my timetable"],
            [score |-> 3, category |-> "Vision", text |-> "I know my goal"],
            [score |-> 5, category |-> "Effort", text |-> "I work hard at revision"] >>]

\* what each optional input may be: there, or missing in one of the ways the callers
\* leave it missing (student_coaching_data of src/app.py, lines 1137-1199, 1234 and 1325)
VespaProfiles == {FullStudentData.vespa_profile, <<>>}
SchoolAverages == {FullStudentData.school_vespa_averages, NoneObj}
AcademicProfiles ==
    {FullStudentData.academic_profile_summary, NoneObj,
     Obj(<< [subject |-> "Academic profile not found by any method.", currentGrade |-> "N/A",
             targetGrade |-> "N/A", standard_meg |-> None] >>)}
AcademicMegs == {FullStudentData.academic_megs, NoneObj}
ReflectionsAndGoals ==
    {FullStudentData.student_reflections_and_goals, NoneObj,
     Obj(<< <<"rrc1_comment", None>>, <<"goal1", None>> >>),
     Obj(<< <<"rrc_comment", "Not available">>, <<"goal", "Not available">> >>)}
QuestionHighlights ==
    {FullStudentData.object29_question_highlights, NoneObj, Obj([top_3 |-> <<>>, bottom_3 |-> <<>>])}

StudentDataDicts ==
    {[FullStudentData EXCEPT
         !.vespa_profile = vespa_profile,
         !.school_vespa_averages = school_vespa_averages,
         !.academic_profile_summary = academic_profile_summary,
         !.academic_megs = academic_megs,
         !.student_reflections_and_goals = student_reflections_and_goals,
         !.object29_question_highlights = object29_question_highlights,
         !.all_scored_questionnaire_statements =
             IF Falsy(object29_question_highlights) \/ object29_question_highlights.val.top_3 = <<>>
             THEN <<>> ELSE FullStudentData.all_scored_questionnaire_statements] :
        vespa_profile \in VespaProfiles, school_vespa_averages \in SchoolAverages,
        academic_profile_summary \in AcademicProfiles, academic_megs \in AcademicMegs,
        student_reflections_and_goals \in ReflectionsAndGoals,
        object29_question_highlights \in QuestionHighlights}

\* the initial contexts of a chat turn with every optional input there or missing, and
\* the turn without an initial context
OptionalInputContexts ==
    {NoneObj} \cup
    {Obj([LowContext EXCEPT
             !.vespa_profile = vespa_profile,
             !.school_vespa_averages = school_vespa_averages,
             !.academic_profile_summary = IF academic_there THEN @ ELSE NoneObj,
             !.student_reflections_and_goals = IF reflections_there THEN @ ELSE NoneObj,
             !.object29_question_highlights = IF highlights_there THEN @ ELSE NoneObj]) :
        vespa_profile \in VespaProfiles, school_vespa_averages \in SchoolAverages,
        academic_there \in BOOLEAN, reflections_there \in BOOLEAN, highlights_there \in BOOLEAN}

\* what the language model may do with the prompt: a JSON object of all the keys or of
\* one of them, an answer that is no JSON, or an exception
StudentLlmAnswers ==
    {[kind |-> "json", keys |-> expected_keys_student],
     [kind |-> "json", keys |-> {"student_overview_summary"}],
     [kind |-> "invalid", keys |-> {}],
     [kind |-> "raises", keys |-> {}]}

InitAssembly == InitChat

\* POST /api/v1/chat_turn of src/app.py, the first turn of a chat
chat_turn_first_call ==
    /\ call = NoCall
    /\ \E current_user_message \in {"hello", "I keep highlighting my notes when I revise"},
          initial_ai_context \in OptionalInputContexts :
           \E outcome \in chat_turn("5f3a", current_user_message, <<>>, initial_ai_context, KnackUpOrDown) :
               /\ call' = outcome.call
               /\ knack_chat_log' = outcome.knack_chat_log
    /\ UNCHANGED kbs

\* generate_student_insights_with_llm of src/app.py
generate_student_insights_call ==
    /\ call = NoCall
    /\ \E student_data_dict \in StudentDataDicts :
           call' \in generate_student_insights_with_llm(student_data_dict, StudentLlmAnswers)
    /\ UNCHANGED <<kbs, knack_chat_log>>

NextAssembly == chat_turn_first_call \/ generate_student_insights_call

SpecAssembly == InitAssembly /\ [][NextAssembly]_vars

-----------------------------------------------------------------------------
(* Context assembly with optional inputs missing                            *)

AssemblyOps == {"chat_turn", "generate_student_insights_with_llm"}

\* the call went as far as assembling its context: the API key is set
AssemblyReached == call.op \in AssemblyOps /\ Truthy(OPENAI_API_KEY)

\* the context was assembled and handed to the language model
AssemblyCompleted == IF call.op = "chat_turn" THEN call.answered ELSE call.assembled

\* the parts of the context, in order
AssembledParts == IF call.op = "chat_turn" THEN call.turn.rag_context_parts ELSE call.prompt_parts

\* the four sections looked at, each by how its heading starts in the two contexts
Sections == {"profile", "academic", "reflections", "knowledge"}
SectionHeading ==
    [chat_turn |->
        [profile |-> "\nMy VESPA Scores:", academic |-> "\nMy Academic Profile",
         reflections |-> "\nMy Recent Reflections & Goals", knowledge |-> "\n--- Relevant Coaching Insights"],
     generate_student_insights_with_llm |->
        [profile |-> "\n--- My Current VESPA Profile", academic |-> "\n--- My Academic Profile",
         reflections |-> "\n--- My Reflections & Goals", knowledge |-> "\n\n--- General Coaching Principles"]]

\* where the heading of a section stands in the context
HeadingAt(section) ==
    {i \in 1..Len(AssembledParts) : StartsWith(AssembledParts[i].text, SectionHeading[call.op][section])}

\* the lines of a section: what follows its heading, up to the next heading (a heading
\* starts on an empty line)
SectionLines(section) ==
    {j \in 1..Len(AssembledParts) :
        \E h \in HeadingAt(section) :
            h < j /\ \A k \in (h + 1)..j : ~StartsWith(AssembledParts[k].text, "\n")}

\* a line that says its data is not available
SaysNotAvailable(text) == Contains(text, "not available") \/ Contains(text, "isn't available")

\* the data the call was given
GivenData == IF call.op = "chat_turn" THEN call.initial_ai_context ELSE Obj(call.student_data_dict)

\* the input of a section is missing
InputMissing(section) ==
    CASE section = "profile" -> Falsy(GivenData) \/ GivenData.val.vespa_profile = <<>>
      [] section = "academic" -> Falsy(GivenData) \/ Falsy(GivenData.val.academic_profile_summary)
      [] section = "reflections" -> Falsy(GivenData) \/ Falsy(GivenData.val.student_reflections_and_goals)
      [] OTHER -> Falsy(COACHING_INSIGHTS_DATA)

\* C11: for every combination of optional inputs there or missing, the context is
\* assembled without error and carries each of its sections (profile, academic profile,
\* reflections and goals, retrieved knowledge), the section of a missing input with a
\* line that says it is not available
C11_EverySectionOrPlaceholder ==
    AssemblyReached =>
        /\ AssemblyCompleted
        /\ \A section \in Sections :
              /\ HeadingAt(section) # {}
              /\ InputMissing(section) =>
                     \E j \in SectionLines(section) : SaysNotAvailable(AssembledParts[j].text)

\* C11: the record of the student holds no reflection and no goal for the cycle, the
\* insights catalogue is loaded, and collecting the keywords raised: no prompt was
\* assembled and the insights returned are the error texts
C11_InsightsLostToMissingReflection ==
    /\ call.op = "generate_student_insights_with_llm"
    /\ Truthy(OPENAI_API_KEY)
    /\ ~Falsy(call.student_data_dict.student_reflections_and_goals)
    /\ EntryValue(call.student_data_dict.student_reflections_and_goals.val, "rrc1_comment", "") = None
    /\ ~highlights_raise(call.student_data_dict.object29_question_highlights)
    /\ call.raised /\ ~call.assembled
    /\ call.insights = insights_after_exception

-----------------------------------------------------------------------------
(* Normalisation: the type that names no family                             *)

\* the tokens by which either normalisation recognises a family, in upper case
FamilyMarkers ==
    {"A LEVEL", "A-LEVEL", "ALEVEL", "A2", "AS LEVEL", "AS-LEVEL", "ASLEVEL", "BTEC", "WJEC", "CACHE", "UAL",
     "IB", "INTERNATIONAL BACCALAUREATE", "PRE-U", "PRE U", "PREU"}

\* the call normalised a type that is null or empty, or carries no marker of any family
NoFamilyNamed ==
    /\ call.op \in NormalizeOps
    /\ \/ call.exam_type_str \in {None, ""}
       \/ \A marker \in FamilyMarkers : ~Contains(Upper(call.exam_type_str), marker)

-----------------------------------------------------------------------------
(* Normalisation: the type that names one family by its marker              *)

\* the marker tokens of the families other than A Level, in upper case
FamilyTokens == {"BTEC", "WJEC", "CACHE", "UAL", "PRE-U", "IB"}

\* the marker tokens among the words of the type
TokensNamed(exam_type_str) ==
    {token \in FamilyTokens :
        \E i \in 1..Len(Split(exam_type_str)) : Upper(Split(exam_type_str)[i]) = token}

\* the call normalised a type that names exactly one family by its token, and carries
\* no marker of A Level or AS Level
OneFamilyNamed ==
    /\ call.op \in NormalizeOps
    /\ call.exam_type_str # None
    /\ Cardinality(TokensNamed(call.exam_type_str)) = 1
    /\ \A marker \in {"A LEVEL", "A-LEVEL", "ALEVEL", "A2", "AS LEVEL", "AS-LEVEL", "ASLEVEL"} :
          ~Contains(Upper(call.exam_type_str), marker)

\* the result is a variant of the family: a member of the closed set, or a family-only
\* label, that begins with the token of the family
VariantOfFamily(result, token) ==
    /\ result \in (QualificationType \cup FamilyOnlyLabels)
    /\ Upper(FirstField(result)) = token

\* C13: a type that names exactly one family by its marker token (BTEC, WJEC, CACHE, UAL,
\* Pre-U or IB), whatever words surround the token, is normalised to a variant of that
\* family
C13_MarkerGivesVariantOfFamily ==
    OneFamilyNamed =>
        \A token \in TokensNamed(call.exam_type_str) : VariantOfFamily(call.result, token)

\* C13 witness: the student coach was given a type whose only marker is WJEC and handed
\* it back as given, where the tutor backend gives a WJEC variant
C13_WjecHandedBack ==
    /\ OneFamilyNamed
    /\ call.op = "normalize_qualification_type"
    /\ TokensNamed(call.exam_type_str) = {"WJEC"}
    /\ call.result = Strip(call.exam_type_str)
    /\ ~VariantOfFamily(call.result, "WJEC")
    /\ VariantOfFamily(kbapp_normalize_qualification_type(call.exam_type_str), "WJEC")

-----------------------------------------------------------------------------
(* The subjects of the academic profile: points and MEG of each subject     *)

\* src/knowledge_base/app.py coaching_suggestions, lines 1309-1331: the benchmark table
\* of the subject's qualification
benchmark_table_for_subject(normalized_qual, qual_details) ==
    IF normalized_qual = "A Level" THEN alps_bands_aLevel_75_kb
    ELSE IF normalized_qual = "AS Level" THEN alps_bands_aLevel_75_kb
    ELSE IF normalized_qual \in {"IB HL", "IB SL"} THEN alps_bands_ib_kb
    ELSE IF Contains(normalized_qual, "BTEC") THEN
         IF (IF Falsy(qual_details) THEN "2016" ELSE Get(qual_details.val, "year", "2016")) = "2010"
         THEN alps_bands_btec2010_kb ELSE alps_bands_btec2016_kb
    ELSE IF Contains(normalized_qual, "Pre-U") THEN alps_bands_preU_kb
    ELSE IF Contains(normalized_qual, "UAL") THEN alps_bands_ual_kb
    ELSE IF Contains(normalized_qual, "WJEC") THEN alps_bands_wjec_kb
    ELSE IF Contains(normalized_qual, "CACHE") THEN alps_bands_cache_kb
    ELSE NoneObj

\* lines 1339-1351: the points of the A Level MEG of each percentile, for an A Level
\* subject whose 75th percentile table is loaded
kbapp_meg_points_of_percentiles(prior_attainment_score, standardMegPoints) ==
    (60 :> kbapp_get_points("A Level",
               kbapp_get_meg_for_prior_attainment(prior_attainment_score, alps_bands_aLevel_60_kb, "A Level", NoneObj),
               grade_points_mapping_kb))
    @@ (75 :> standardMegPoints)
    @@ (90 :> kbapp_get_points("A Level",
               kbapp_get_meg_for_prior_attainment(prior_attainment_score, alps_bands_aLevel_90_kb, "A Level", NoneObj),
               grade_points_mapping_kb))
    @@ (100 :> kbapp_get_points("A Level",
               kbapp_get_meg_for_prior_attainment(prior_attainment_score, alps_bands_aLevel_100_kb, "A Level", NoneObj),
               grade_points_mapping_kb))

\* a variant that looks the points of every MEG up in the A Level grades
kbapp_subject_with_a_level_points(prior_attainment_score, subject) ==
    IF Falsy(subject.table) THEN subject
    ELSE [subject EXCEPT
            !.standard_meg = kbapp_get_meg_for_prior_attainment(prior_attainment_score, subject.table,
                                 subject.normalized_qualification_type, subject.qual_details),
            !.standardMegPoints = kbapp_get_points("A Level",
                                      kbapp_get_meg_for_prior_attainment(prior_attainment_score, subject.table,
                                          subject.normalized_qualification_type, subject.qual_details),
                                      grade_points_mapping_kb),
            !.megPoints =
                IF subject.normalized_qualification_type = "A Level"
                THEN kbapp_meg_points_of_percentiles(prior_attainment_score,
                         kbapp_get_points("A Level",
                             kbapp_get_meg_for_prior_attainment(prior_attainment_score, subject.table, "A Level",
                                                                subject.qual_details),
                             grade_points_mapping_kb))
                ELSE <<>>]

\* lines 1333-1351: the subject once its table is chosen
kbapp_subject_with_meg(prior_attainment_score, subject) ==
    IF Falsy(subject.table) THEN subject
    ELSE [subject EXCEPT
            !.standard_meg = kbapp_get_meg_for_prior_attainment(prior_attainment_score, subject.table,
                                 subject.normalized_qualification_type, subject.qual_details),
            !.standardMegPoints = kbapp_get_points(subject.normalized_qualification_type,
                                      kbapp_get_meg_for_prior_attainment(prior_attainment_score, subject.table,
                                          subject.normalized_qualification_type, subject.qual_details),
                                      grade_points_mapping_kb),
            !.megPoints =
                IF subject.normalized_qualification_type = "A Level"
                THEN kbapp_meg_points_of_percentiles(prior_attainment_score,
                         kbapp_get_points("A Level",
                             kbapp_get_meg_for_prior_attainment(prior_attainment_score, subject.table, "A Level",
                                                                subject.qual_details),
                             grade_points_mapping_kb))
                ELSE <<>>]

\* lines 1298-1306: the subject before its MEG is looked up
kbapp_subject_of_type(raw_exam_type, current_grade, normalized_qual, qual_details) ==
    [exam_type |-> raw_exam_type,
     normalized_qualification_type |-> normalized_qual,
     qual_details |-> qual_details,
     currentGradePoints |-> kbapp_get_points(normalized_qual, current_grade, grade_points_mapping_kb),
     table |-> benchmark_table_for_subject(normalized_qual, qual_details),
     standard_meg |-> "N/A",
     standardMegPoints |-> 0,
     megPoints |-> <<>>]

\* lines 1358-1373: the subject when there is no prior attainment score
kbapp_subject_without_score(subject_summary) ==
    [exam_type |-> Get(subject_summary, "examType", ""),
     normalized_qualification_type |-> None,
     qual_details |-> NoneObj,
     currentGradePoints |-> 0,
     table |-> NoneObj,
     standard_meg |-> "N/A (No PA)",
     standardMegPoints |-> 0,
     megPoints |->
        IF Truthy(Get(subject_summary, "examType", ""))
           /\ kbapp_normalize_qualification_type(Get(subject_summary, "examType", "")) = "A Level"
        THEN (60 :> 0) @@ (75 :> 0) @@ (90 :> 0) @@ (100 :> 0)
        ELSE <<>>]

\* src/knowledge_base/app.py coaching_suggestions, lines 1293-1373: one subject of the
\* academic profile.  subject_summary is the dict of the subject, prior_attainment_score
\* the float read from the profile record or None.
coaching_suggestions_subject(subject_summary, prior_attainment_score) ==
    IF prior_attainment_score = NoneV THEN kbapp_subject_without_score(subject_summary)
    ELSE kbapp_subject_with_meg(prior_attainment_score,
             kbapp_subject_of_type(
                 Get(subject_summary, "examType", "A Level"),
                 Get(subject_summary, "currentGrade", None),
                 kbapp_normalize_qualification_type(Get(subject_summary, "examType", "A Level")),
                 kbapp_extract_qual_details(Get(subject_summary, "examType", "A Level"),
                     kbapp_normalize_qualification_type(Get(subject_summary, "examType", "A Level")))))

\* x if x is not None else default
NotNoneOr(x, default) == IF x = None THEN default ELSE x

\* src/app.py student_coaching_data, lines 1309-1313: the points of the MEG of the other
\* percentiles, for an A Level subject
meg_points_of_percentiles(prior_attainment_score, norm_qual) ==
    IF norm_qual = "A Level" /\ prior_attainment_score # NoneV
    THEN [percentile \in {60, 90, 100} |->
             get_meg_for_prior_attainment(prior_attainment_score, norm_qual, percentile)[2]]
    ELSE <<>>

\* src/app.py student_coaching_data, lines 1287-1314, once the type is normalised
student_subject_of_type(exam_type, current_grade, norm_qual, prior_attainment_score) ==
    [exam_type |-> exam_type,
     normalized_qualification_type |-> norm_qual,
     qual_details |-> IF prior_attainment_score = NoneV THEN NoneObj
                      ELSE extract_qual_details(exam_type, norm_qual),
     currentGradePoints |-> IF current_grade # "N/A" THEN get_points(current_grade, norm_qual) ELSE 0,
     standard_meg |->
        IF prior_attainment_score = NoneV THEN "N/A"
        ELSE NotNoneOr(get_meg_for_prior_attainment(prior_attainment_score, norm_qual, 75)[1], "N/A"),
     standardMegPoints |->
        IF prior_attainment_score = NoneV THEN 0
        ELSE get_meg_for_prior_attainment(prior_attainment_score, norm_qual, 75)[2],
     megPoints |-> meg_points_of_percentiles(prior_attainment_score, norm_qual)]

\* src/app.py student_coaching_data, lines 1285-1314: one subject of the academic profile
student_coaching_subject(subject_entry, prior_attainment_score) ==
    student_subject_of_type(Get(subject_entry, "examType", "A Level"),
                            Get(subject_entry, "currentGrade", "N/A"),
                            normalize_qualification_type(Get(subject_entry, "examType", "A Level")),
                            prior_attainment_score)

\* the four percentiles the MEG is reported at
ReportingPercentiles == {60, 75, 90, 100}

\* a variant that resolves the MEG of every percentile from the 75th percentile table
student_academic_megs_from_75th(prior_attainment_score) ==
    IF prior_attainment_score = NoneV THEN [grades |-> <<>>, points |-> <<>>]
    ELSE [grades |-> [percentile \in ReportingPercentiles |->
                        NotNoneOr(get_meg_for_prior_attainment(prior_attainment_score, "A Level", 75)[1], "N/A")],
          points |-> [percentile \in ReportingPercentiles |->
                        get_meg_for_prior_attainment(prior_attainment_score, "A Level", 75)[2]]]

\* src/app.py student_coaching_data, lines 1270-1278: the A Level MEG grade and points of
\* the four percentiles (aLevel_meg_grade_60th, aLevel_meg_points_60th, ...); the dict
\* stays empty without a prior attainment score
student_academic_megs(prior_attainment_score) ==
    IF prior_attainment_score = NoneV THEN [grades |-> <<>>, points |-> <<>>]
    ELSE [grades |-> [percentile \in ReportingPercentiles |->
                        NotNoneOr(get_meg_for_prior_attainment(prior_attainment_score, "A Level", percentile)[1], "N/A")],
          points |-> [percentile \in ReportingPercentiles |->
                        get_meg_for_prior_attainment(prior_attainment_score, "A Level", percentile)[2]]]

\* the A Level table of the percentile
a_level_table(percentile) ==
    CASE percentile = 60 -> alps_bands_aLevel_60_kb
      [] percentile = 75 -> alps_bands_aLevel_75_kb
      [] percentile = 90 -> alps_bands_aLevel_90_kb
      [] percentile = 100 -> alps_bands_aLevel_100_kb

\* src/knowledge_base/app.py coaching_suggestions, lines 1263-1289: the A Level MEG grade
\* and points of the four percentiles, "N/A" and 0 where no score or no table is
kbapp_academic_megs(prior_attainment_score) ==
    [grades |-> [percentile \in ReportingPercentiles |->
                    IF prior_attainment_score = NoneV \/ Falsy(a_level_table(percentile)) THEN "N/A"
                    ELSE kbapp_get_meg_for_prior_attainment(prior_attainment_score, a_level_table(percentile),
                                                            "A Level", NoneObj)],
     points |-> [percentile \in ReportingPercentiles |->
                    IF prior_attainment_score = NoneV \/ Falsy(a_level_table(percentile)) THEN 0
                    ELSE kbapp_get_points("A Level",
                             kbapp_get_meg_for_prior_attainment(prior_attainment_score, a_level_table(percentile),
                                                                "A Level", NoneObj),
                             grade_points_mapping_kb)]]

-----------------------------------------------------------------------------
(* The subjects of the academic profile: tables, subjects and calls         *)

\* a band of a family's table: the prior attainment from lower to upper (no upper bound
\* when upper is 0), and the MEG grade of each variant under the variant's key
FamilyBand(lower, upper, grades) ==
    (IF upper = 0 THEN ("gcseMinScore" :> NumV(lower))
     ELSE ("gcseMinScore" :> NumV(lower)) @@ ("gcseMaxScore" :> NumV(upper)))
    @@ [key \in DOMAIN grades |-> StrV(grades[key])]



TwoBands(lower_grades, upper_grades) ==
    << FamilyBand(0, 65, lower_grades), FamilyBand(65, 0, upper_grades) >>

Std75 == TwoBands([megAspiration |-> "C"], [megAspiration |-> "B"])

Btec2016Bands ==
    TwoBands([extCertMeg |-> "M", dipMeg |-> "MM", extDipMeg |-> "MMM", certMeg |-> "P", foundDipMeg |-> "M"],
             [extCertMeg |-> "D", dipMeg |-> "DM", extDipMeg |-> "DDM", certMeg |-> "M", foundDipMeg |-> "D"])
\* the same table under the long spellings of the keys
Btec2016BandsLong ==
    TwoBands(("Ext Cert MEG" :> "M") @@ ("Diploma MEG" :> "MM") @@ ("Ext Dip MEG" :> "MMM"),
             ("Ext Cert MEG" :> "D") @@ ("Diploma MEG" :> "DM") @@ ("Ext Dip MEG" :> "DDM"))
Btec2010Bands ==
    TwoBands([certMEG |-> "P", subDipMEG |-> "M", ninetyCrMEG |-> "MP", dipMEG |-> "MP", extDipMEG |-> "MMP"],
             [certMEG |-> "M", subDipMEG |-> "D", ninetyCrMEG |-> "MM", dipMEG |-> "DM", extDipMEG |-> "DMM"])
IbBands == TwoBands([hlMeg |-> "5", slMeg |-> "4"], [hlMeg |-> "6", slMeg |-> "5"])
PreUBands == TwoBands([fullMeg |-> "M2", scMeg |-> "M3"], [fullMeg |-> "D3", scMeg |-> "M1"])
UalBands == TwoBands([megGrade |-> "M"], [megGrade |-> "D"])
WjecBands == TwoBands([certMeg |-> "C", dipMegAsp |-> "M"], [certMeg |-> "B", dipMegAsp |-> "D"])
CacheBands == TwoBands([megGrade |-> "C"], [megGrade |-> "B"])

\* grade_to_points_mapping.json with the vocational qualifications of the subjects
BtecDiplomaPoints == ("DM" :> 40) @@ ("MM" :> 32) @@ ("MP" :> 24)
WjecDiplomaPoints == ("D" :> 24) @@ ("M" :> 16)
SubjectGradeTable ==
    FullGradeTable @@ ("BTEC Level 3 Diploma" :> BtecDiplomaPoints)
        @@ ("WJEC Level 3 Diploma" :> WjecDiplomaPoints)

\* the exam types of the subjects of a profile
SubjectExamTypes ==
    {"A Level", "AS Level", "BTEC Level 3 Diploma", "BTEC Extended Certificate",
     "BTEC Extended Certificate 2010", "BTEC Subsidiary Diploma", "BTEC Subsidiary Diploma 2010",
     "BTEC Level 3 Extended Diploma in Business", "BTEC 90cr 2010", "WJEC Level 3 Diploma",
     "WJEC Certificate", "Pre-U Principal Subject", "Pre-U Short Course", "IB HL",
     "IB Standard Level", "UAL Diploma", "CACHE Diploma", "GCSE"}

\* the dicts of the subjects: the exam type and the current grade may be missing
SubjectEntries ==
    {[subject |-> "Business"], [subject |-> "Business", currentGrade |-> "B"]}
    \cup {[subject |-> "Business", examType |-> exam_type, currentGrade |-> current_grade] :
             exam_type \in SubjectExamTypes, current_grade \in {"B", "M", "N/A"}}

\* the prior attainment scores read from the profile record: a float, or None
SubjectScores == {NoneV, NumV(59), NumV(65), NumV(68)}

InitSubjects ==
    /\ NoChatKnowledge
    /\ NoSchoolAverages
    /\ grade_points_mapping_kb \in {NoneObj, Obj(SubjectGradeTable)}
    /\ \E unloaded \in {"none", "aLevel_75", "aLevel_100", "btec2016", "btec2010", "wjec", "families"} :
        /\ alps_bands_aLevel_60_kb = Obj(Std60)
        /\ alps_bands_aLevel_75_kb = IF unloaded = "aLevel_75" THEN NoneObj ELSE Obj(Std75)
        /\ alps_bands_aLevel_90_kb = Obj(Std90)
        /\ alps_bands_aLevel_100_kb = IF unloaded = "aLevel_100" THEN NoneObj ELSE Obj(Std100)
        /\ alps_bands_btec2010_kb = IF unloaded \in {"btec2010", "families"} THEN NoneObj ELSE Obj(Btec2010Bands)
        /\ alps_bands_btec2016_kb \in IF unloaded \in {"btec2016", "families"} THEN {NoneObj}
                                      ELSE {Obj(Btec2016Bands), Obj(Btec2016BandsLong)}
        /\ alps_bands_cache_kb = IF unloaded = "families" THEN NoneObj ELSE Obj(CacheBands)
        /\ alps_bands_ib_kb = IF unloaded = "families" THEN NoneObj ELSE Obj(IbBands)
        /\ alps_bands_preU_kb = IF unloaded = "families" THEN NoneObj ELSE Obj(PreUBands)
        /\ alps_bands_ual_kb = IF unloaded = "families" THEN NoneObj ELSE Obj(UalBands)
        /\ alps_bands_wjec_kb = IF unloaded \in {"wjec", "families"} THEN NoneObj ELSE Obj(WjecBands)
    /\ call = NoCall

\* src/app.py get_meg_for_prior_attainment, called for a subject's type at a percentile
get_meg_of_subject_call ==
    \E prior_attainment_score \in SubjectScores, qualification_type \in SubjectExamTypes,
       percentile \in Percentiles :
        /\ call = NoCall
        /\ call' = [op |-> "get_meg_for_prior_attainment",
                    prior_attainment_score |-> prior_attainment_score,
                    qualification_type |-> qualification_type,
                    percentile |-> percentile,
                    table |-> select_table(normalize_qualification_type(qualification_type), percentile),
                    result |-> get_meg_for_prior_attainment(prior_attainment_score, qualification_type, percentile)]
        /\ UNCHANGED <<kbs, knack_chat_log>>

student_coaching_subject_call ==
    \E subject_entry \in SubjectEntries, prior_attainment_score \in SubjectScores :
        /\ call = NoCall
        /\ call' = [op |-> "student_coaching_subject",
                    subject_entry |-> subject_entry,
                    prior_attainment_score |-> prior_attainment_score,
                    subject |-> student_coaching_subject(subject_entry, prior_attainment_score)]
        /\ UNCHANGED <<kbs, knack_chat_log>>

coaching_suggestions_subject_call ==
    \E subject_summary \in SubjectEntries, prior_attainment_score \in SubjectScores :
        /\ call = NoCall
        /\ call' = [op |-> "coaching_suggestions_subject",
                    subject_entry |-> subject_summary,
                    prior_attainment_score |-> prior_attainment_score,
                    subject |-> coaching_suggestions_subject(subject_summary, prior_attainment_score)]
        /\ UNCHANGED <<kbs, knack_chat_log>>

student_academic_megs_call ==
    \E prior_attainment_score \in SubjectScores :
        /\ call = NoCall
        /\ call' = [op |-> "student_academic_megs",
                    prior_attainment_score |-> prior_attainment_score,
                    academic_megs |-> student_academic_megs(prior_attainment_score)]
        /\ UNCHANGED <<kbs, knack_chat_log>>

kbapp_academic_megs_call ==
    \E prior_attainment_score \in SubjectScores :
        /\ call = NoCall
        /\ call' = [op |-> "kbapp_academic_megs",
                    prior_attainment_score |-> prior_attainment_score,
                    academic_megs |-> kbapp_academic_megs(prior_attainment_score)]
        /\ UNCHANGED <<kbs, knack_chat_log>>

NextSubjects ==
    \/ get_meg_of_subject_call
    \/ student_coaching_subject_call
    \/ coaching_suggestions_subject_call
    \/ student_academic_megs_call
    \/ kbapp_academic_megs_call

SpecSubjects == InitSubjects /\ [][NextSubjects]_vars

-----------------------------------------------------------------------------
(* MEG resolution of the families that have one table                       *)

SubjectOps == {"student_coaching_subject", "coaching_suggestions_subject"}

\* the position of the first band of the table that holds the score, 0 when none does
FirstHolding(score, bands) ==
    IF \E i \in 1..Len(bands) : in_band(score, bands[i])
    THEN CHOOSE i \in 1..Len(bands) :
            in_band(score, bands[i]) /\ \A j \in 1..(i - 1) : ~in_band(score, bands[j])
    ELSE 0

\* the table of the family of a type other than A Level and AS Level, which have none
FamilyTable(normalized_qual, qual_details) ==
    IF normalized_qual \in {None, "A Level", "AS Level"} THEN NoneObj
    ELSE benchmark_table_for_subject(normalized_qual, qual_details)

\* the score is a number, the family's table is loaded and one of its bands holds the score
FamilyBandHolds(prior_attainment_score, normalized_qual, qual_details) ==
    /\ prior_attainment_score # NoneV
    /\ ~Falsy(FamilyTable(normalized_qual, qual_details))
    /\ FirstHolding(Float(prior_attainment_score).v, FamilyTable(normalized_qual, qual_details).val) # 0

\* the grade of the variant in the first band of the family's table that holds the score
FamilyBandGrade(prior_attainment_score, normalized_qual, qual_details) ==
    kbapp_meg_aspiration(
        FamilyTable(normalized_qual, qual_details).val[
            FirstHolding(Float(prior_attainment_score).v, FamilyTable(normalized_qual, qual_details).val)],
        normalized_qual, qual_details)

\* C14: for a qualification other than A Level whose family table is loaded, the resolved
\* MEG is the same for the percentiles 60, 75, 90 and 100, and it is the grade of the
\* band of the family's table that holds the score whenever there is such a band
C14_FamilyTableWhateverPercentile ==
    /\ (call.op \in SubjectOps
        /\ FamilyBandHolds(call.prior_attainment_score, call.subject.normalized_qualification_type,
                           call.subject.qual_details))
       => /\ call.subject.standard_meg =
                FamilyBandGrade(call.prior_attainment_score, call.subject.normalized_qualification_type,
                                call.subject.qual_details)
          /\ call.subject.megPoints = <<>>
    /\ (call.op = "get_meg_for_prior_attainment"
        /\ normalize_qualification_type(call.qualification_type) # "A Level")
       => \A percentile \in {60, 75, 90, 100} :
             get_meg_for_prior_attainment(call.prior_attainment_score, call.qualification_type, percentile)
                = call.result

\* C14 witness: the student coach gave a BTEC Diploma subject no MEG although the BTEC
\* table is loaded and its band for the score carries the Diploma grade, which the
\* tutor backend resolves
C14_StudentCoachIgnoresFamilyTable ==
    /\ call.op = "student_coaching_subject"
    /\ call.subject.normalized_qualification_type = "BTEC Level 3 Diploma"
    /\ FamilyBandHolds(call.prior_attainment_score, "BTEC Level 3 Diploma", call.subject.qual_details)
    /\ FamilyBandGrade(call.prior_attainment_score, "BTEC Level 3 Diploma", call.subject.qual_details) = "DM"
    /\ call.subject.standard_meg = "N/A"
    /\ call.subject.standardMegPoints = 0
    /\ coaching_suggestions_subject(call.subject_entry, call.prior_attainment_score).standard_meg = "DM"

-----------------------------------------------------------------------------
(* A Level: the table of the requested percentile                           *)

\* the call resolved the MEG of an A Level type in the student coach
ALevelResolved ==
    /\ call.op = "get_meg_for_prior_attainment"
    /\ normalize_qualification_type(call.qualification_type) = "A Level"

\* what the bands of a table give for a score: N/A and no points for no score, an
\* unreadable score or a table that is not loaded
ResolvedFrom(prior_attainment_score, benchmark_table_data) ==
    IF prior_attainment_score = NoneV \/ ~Float(prior_attainment_score).ok \/ Falsy(benchmark_table_data)
    THEN <<"N/A", 0>>
    ELSE scan_bands(Float(prior_attainment_score).v, benchmark_table_data.val, "A Level")

\* C15: for A Level a requested percentile of 60, 75, 90 or 100 selects the table of that
\* percentile, and every other percentile selects the 75th percentile table, so that the
\* MEG resolved for it is the MEG resolved for the 75th percentile
C15_PercentileSelectsItsTable ==
    ALevelResolved =>
        /\ call.percentile = 60 => call.table = alps_bands_aLevel_60_kb
        /\ call.percentile = 75 => call.table = alps_bands_aLevel_75_kb
        /\ call.percentile = 90 => call.table = alps_bands_aLevel_90_kb
        /\ call.percentile = 100 => call.table = alps_bands_aLevel_100_kb
        /\ call.percentile \notin {60, 75, 90, 100} => call.table = alps_bands_aLevel_75_kb
        /\ call.result = ResolvedFrom(call.prior_attainment_score, call.table)
        /\ call.percentile \notin {60, 75, 90, 100} =>
              call.result = get_meg_for_prior_attainment(call.prior_attainment_score,
                                                         call.qualification_type, 75)

\* C15 witness: an unsupported percentile was requested for A Level and the grade came
\* from a band of the 75th percentile table, not from the table of another percentile
C15_UnsupportedPercentileResolvedFrom75th ==
    /\ ALevelResolved
    /\ call.percentile \notin {60, 75, 90, 100}
    /\ ~Falsy(alps_bands_aLevel_75_kb)
    /\ call.result[1] \notin {"N/A", None}
    /\ call.result = ResolvedFrom(call.prior_attainment_score, alps_bands_aLevel_75_kb)
    /\ \A percentile \in {60, 90, 100} :
          call.result # get_meg_for_prior_attainment(call.prior_attainment_score,
                                                     call.qualification_type, percentile)

-----------------------------------------------------------------------------
(* The points of the MEG                                                    *)

\* C16: whenever MEG resolution returns a grade from a matched band, the MEG points are
\* get_points of that grade and of the normalised qualification type the table was
\* selected by, never the points of the grade in another qualification's grades
C16_PointsOfGradeInSameQualification ==
    /\ (call.op = "get_meg_for_prior_attainment" /\ call.result[1] # "N/A")
       => call.result[2] = get_points(call.result[1], normalize_qualification_type(call.qualification_type))
    /\ (call.op = "student_coaching_subject" /\ call.subject.standard_meg # "N/A")
       => call.subject.standardMegPoints =
             get_points(call.subject.standard_meg, call.subject.normalized_qualification_type)
    /\ (call.op = "coaching_suggestions_subject" /\ call.subject.standard_meg \notin {"N/A", "N/A (No PA)"})
       => /\ call.subject.standardMegPoints =
                kbapp_get_points(call.subject.normalized_qualification_type, call.subject.standard_meg,
                                 grade_points_mapping_kb)
          /\ \A grade_points \in {grade_points_mapping_kb} :
                (/\ ~Falsy(grade_points)
                 /\ call.subject.standard_meg # None
                 /\ call.subject.normalized_qualification_type \in DOMAIN grade_points.val
                 /\ call.subject.standard_meg
                        \in DOMAIN grade_points.val[call.subject.normalized_qualification_type])
                => call.subject.standardMegPoints =
                      grade_points.val[call.subject.normalized_qualification_type][call.subject.standard_meg]

\* C16 witness: the tutor backend resolved the BTEC Diploma grade DM from a band of the
\* BTEC table and gave it the 40 points DM has in the BTEC Diploma grades, a grade the
\* A Level grades do not have
C16_DiplomaGradeInDiplomaPoints ==
    /\ call.op = "coaching_suggestions_subject"
    /\ call.subject.normalized_qualification_type = "BTEC Level 3 Diploma"
    /\ call.subject.table = alps_bands_btec2016_kb
    /\ call.subject.standard_meg = "DM"
    /\ ~Falsy(grade_points_mapping_kb)
    /\ "DM" \notin DOMAIN grade_points_mapping_kb.val["A Level"]
    /\ call.subject.standardMegPoints = grade_points_mapping_kb.val["BTEC Level 3 Diploma"]["DM"]
    /\ call.subject.standardMegPoints > 0

-----------------------------------------------------------------------------
(* Grade points: the A Level fallback                                       *)

\* the grade points table is loaded and has no entry for A Level
NoALevelEntry ==
    /\ ~grade_points_mapping_kb.none
    /\ \/ "A Level" \notin DOMAIN grade_points_mapping_kb.val
       \/ DOMAIN grade_points_mapping_kb.val["A Level"] = {}

\* the points the loaded table gives the grade under the qualification, directly or
\* through an alias, 0 when it gives none
PointsInTable ==
    IF FoundDirectly THEN grade_points_mapping_kb.val[LookupQualification][LookupGrade]
    ELSE IF FoundThroughAlias
    THEN grade_points_mapping_kb.val[LookupQualification][
             (CHOOSE a \in AliasPairs : a[1] = LookupGrade /\ a[2] \in GradesOfQualification)[2]]
    ELSE 0

\* the call looked up a grade that is not null, empty or "N/A"
GradeLookedUp == call.op \in PointsOps /\ call.grade \notin {None, "", "N/A"}

\* C17: when the grade points table has no entry for A Level, get_points for A Level
\* returns the hard-coded fallback value of the grades A*, A, B, C, D, E and U (56 for A*)
\* and 0 for any other grade; the fallback is not used when the table has an A Level
\* entry, nor for any other qualification
C17_ALevelFallback ==
    GradeLookedUp =>
        IF LookupQualification = "A Level" /\ NoALevelEntry
        THEN call.result = IF LookupGrade \in DOMAIN grade_to_points_fallback
                           THEN grade_to_points_fallback[LookupGrade] ELSE 0
        ELSE call.result = PointsInTable

\* C17 witness: the grade points table is loaded without an A Level entry and the tutor
\* backend has given the A Level grade A* no points, where the fallback has 56
C17_FallbackNotReached ==
    /\ call.op = "kbapp_get_points"
    /\ NoALevelEntry
    /\ "AS Level" \in DOMAIN grade_points_mapping_kb.val
    /\ LookupQualification = "A Level"
    /\ LookupGrade = "A*"
    /\ grade_to_points_fallback["A*"] = 56
    /\ call.result = 0

-----------------------------------------------------------------------------
(* Qualification details: the calls                                         *)

DetailWords ==
    {"BTEC", "Extended Certificate", "Certificate", "Diploma", "Subsidiary Diploma", "Extended Diploma",
     "Foundation Diploma", "90cr", "2010", "2016", "WJEC", "Pre-U", "Short Course", "IB", "HL", "A Level"}

DetailExamTypes ==
    {"BTEC Extended Certificate 2010", "BTEC Level 3 Extended Certificate (2016)",
     "2010 BTEC National Certificate", "BTEC Extended Certificate 2016 2010", "BTEC Subsidiary Diploma 2010",
     "BTEC Level 3 Extended Diploma in Business", "BTEC 90 Credit Diploma 2010", "WJEC Level 3 Diploma",
     "Pre-U Short Course", "UAL Diploma"}

\* the raw exam types the details are extracted from
RawDetailTypes == {None, ""} \cup Phrases(DetailWords, MaxWords) \cup DetailExamTypes

InitDetails == InitNormalize

\* src/app.py student_coaching_data, lines 1288-1301: the type is normalised and the
\* details are extracted from the raw and the normalised type
extract_qual_details_call ==
    \E exam_type_str \in RawDetailTypes :
        /\ call = NoCall
        /\ call' = [op |-> "extract_qual_details",
                    exam_type_str |-> exam_type_str,
                    normalized_qual_type |-> normalize_qualification_type(exam_type_str),
                    result |-> extract_qual_details(exam_type_str, normalize_qualification_type(exam_type_str))]
        /\ UNCHANGED <<kbs, knack_chat_log>>

\* src/knowledge_base/app.py coaching_suggestions, lines 1301-1302
kbapp_extract_qual_details_call ==
    \E exam_type_str \in RawDetailTypes :
        /\ call = NoCall
        /\ call' = [op |-> "kbapp_extract_qual_details",
                    exam_type_str |-> exam_type_str,
                    normalized_qual_type |-> kbapp_normalize_qualification_type(exam_type_str),
                    result |-> kbapp_extract_qual_details(exam_type_str,
                                   kbapp_normalize_qualification_type(exam_type_str))]
        /\ UNCHANGED <<kbs, knack_chat_log>>

NextDetails == extract_qual_details_call \/ kbapp_extract_qual_details_call

SpecDetails == InitDetails /\ [][NextDetails]_vars

-----------------------------------------------------------------------------
(* Qualification details: the BTEC Extended Certificate                     *)

DetailOps == {"extract_qual_details", "kbapp_extract_qual_details"}

\* the call extracted the details of a type normalised to the BTEC Extended Certificate
ExtendedCertificateExtracted ==
    /\ call.op \in DetailOps
    /\ call.normalized_qual_type = "BTEC Level 3 Extended Certificate"

\* C18: for a raw type normalised to the BTEC Extended Certificate the details carry the
\* year "2010" if and only if the raw type contains 2010 and otherwise "2016", also when
\* it names no year, and the size "CERT" exactly when the year is 2010 and "EXTCERT"
\* otherwise
C18_ExtendedCertificateYearAndSize ==
    ExtendedCertificateExtracted =>
        /\ ~call.result.none
        /\ DOMAIN call.result.val = {"year", "size"}
        /\ call.result.val.year = IF Contains(call.exam_type_str, "2010") THEN "2010" ELSE "2016"
        /\ call.result.val.size = IF call.result.val.year = "2010" THEN "CERT" ELSE "EXTCERT"

\* C18 witness: 'BTEC Extended Certificate 2010' gave the year 2010 and the size CERT
C18_Certificate2010 ==
    /\ ExtendedCertificateExtracted
    /\ call.exam_type_str = "BTEC Extended Certificate 2010"
    /\ call.result = Obj([year |-> "2010", size |-> "CERT"])

-----------------------------------------------------------------------------
(* The MEG key of the families with several variants                        *)

\* a band that carries a grade under every key the resolution reads
EveryKeyBand ==
    [key \in {"megAspiration", "MEG Aspiration", "hlMeg", "HL MEG Aspiration", "slMeg", "SL MEG Aspiration",
              "fullMeg", "Principal Subject MEG", "scMeg", "Short Course MEG", "extCertMeg", "Ext Cert MEG",
              "dipMeg", "Diploma MEG", "extDipMeg", "Ext Dip MEG", "certMeg", "Certificate MEG",
              "foundDipMeg", "Found Dip MEG", "certMEG", "subDipMEG", "ninetyCrMEG", "dipMEG", "extDipMEG",
              "dipMegAsp", "megGrade", "MEG"} |-> StrV("M")]

\* the call resolved a subject of a family with several variants, from its details
VariantSubjectResolved ==
    /\ call.op \in SubjectOps
    /\ call.prior_attainment_score # NoneV
    /\ \E family \in {"BTEC", "WJEC", "Pre-U"} : Contains(call.subject.normalized_qualification_type, family)
    /\ ~Falsy(call.subject.qual_details)

\* C19: for every detail the extractor produces for a BTEC, WJEC or Pre-U subject, MEG
\* resolution selects the MEG key of the matched band from the detail, so that a matched
\* band that carries a grade for the variant resolves to that grade and not to "N/A"
C19_KeySelectedFromDetail ==
    VariantSubjectResolved =>
        /\ kbapp_meg_aspiration(EveryKeyBand, call.subject.normalized_qualification_type,
                                call.subject.qual_details) # "N/A"
        /\ (/\ FamilyBandHolds(call.prior_attainment_score, call.subject.normalized_qualification_type,
                               call.subject.qual_details)
            /\ FamilyBandGrade(call.prior_attainment_score, call.subject.normalized_qualification_type,
                               call.subject.qual_details) # "N/A")
           => call.subject.standard_meg =
                 FamilyBandGrade(call.prior_attainment_score, call.subject.normalized_qualification_type,
                                 call.subject.qual_details)

\* C19 witness: the student coach extracted the year 2010 and the size CERT for a BTEC
\* Extended Certificate, the 2010 table is loaded and its band for the score carries a
\* grade under certMEG, and the subject was given no MEG
C19_CertificateKeyNotRead ==
    /\ VariantSubjectResolved
    /\ call.op = "student_coaching_subject"
    /\ call.subject.qual_details = Obj([year |-> "2010", size |-> "CERT"])
    /\ FamilyBandHolds(call.prior_attainment_score, call.subject.normalized_qualification_type,
                       call.subject.qual_details)
    /\ FamilyTable(call.subject.normalized_qualification_type, call.subject.qual_details) = alps_bands_btec2010_kb
    /\ FamilyBandGrade(call.prior_attainment_score, call.subject.normalized_qualification_type,
                       call.subject.qual_details) \in {"P", "M"}
    /\ call.subject.standard_meg = "N/A"

-----------------------------------------------------------------------------
(* The MEG points of the four percentiles                                   *)

AcademicMegsOps == {"student_academic_megs", "kbapp_academic_megs"}

\* the call resolved the A Level MEG of the four percentiles for a score: the overall
\* MEGs of the profile, or the MEG points of an A Level subject
FourPercentilesResolved ==
    /\ call.op \in AcademicMegsOps \cup SubjectOps
    /\ call.prior_attainment_score # NoneV
    /\ call.op \in SubjectOps =>
          call.subject.normalized_qualification_type = "A Level" /\ call.subject.megPoints # <<>>

\* the MEG points the call resolved for the percentile
ResolvedPoints(percentile) ==
    IF call.op \in AcademicMegsOps THEN call.academic_megs.points[percentile]
    ELSE IF percentile = 75 THEN call.subject.standardMegPoints
    ELSE call.subject.megPoints[percentile]

\* the points of the grade the percentile's own table gives the score under A Level, 0
\* when the table is not loaded or none of its bands holds the score
PointsOfOwnTable(percentile) ==
    IF \/ Falsy(a_level_table(percentile))
       \/ FirstHolding(Float(call.prior_attainment_score).v, a_level_table(percentile).val) = 0
    THEN 0
    ELSE IF call.op \in {"student_academic_megs", "student_coaching_subject"}
    THEN get_points(meg_aspiration_grade(a_level_table(percentile).val[
                        FirstHolding(Float(call.prior_attainment_score).v, a_level_table(percentile).val)]),
                    "A Level")
    ELSE kbapp_get_points("A Level",
             kbapp_meg_aspiration(a_level_table(percentile).val[
                 FirstHolding(Float(call.prior_attainment_score).v, a_level_table(percentile).val)],
                 "A Level", NoneObj),
             grade_points_mapping_kb)

\* C20 as the specification states it: the MEG points of the four percentiles are
\* ordered, 100th >= 90th >= 75th >= 60th, also when some of the tables are missing
C20_PointsOrderedByPercentile ==
    FourPercentilesResolved =>
        /\ ResolvedPoints(100) >= ResolvedPoints(90)
        /\ ResolvedPoints(90) >= ResolvedPoints(75)
        /\ ResolvedPoints(75) >= ResolvedPoints(60)

\* C20: the MEG points of each of the four percentiles are those of the grade the
\* percentile's own table gives the score, and 0 when that table is missing or has no band
\* for the score; they are ordered whenever the points of the four tables are
C20_EachPercentileFromItsOwnTable ==
    FourPercentilesResolved =>
        /\ \A percentile \in ReportingPercentiles :
              /\ ResolvedPoints(percentile) = PointsOfOwnTable(percentile)
              /\ Falsy(a_level_table(percentile)) => ResolvedPoints(percentile) = 0
        /\ (\A lower, higher \in ReportingPercentiles :
               lower <= higher => PointsOfOwnTable(lower) <= PointsOfOwnTable(higher))
           => /\ ResolvedPoints(100) >= ResolvedPoints(90)
              /\ ResolvedPoints(90) >= ResolvedPoints(75)
              /\ ResolvedPoints(75) >= ResolvedPoints(60)

\* C20 witness: the 100th percentile table is missing, the overall MEG of the 100th
\* percentile is "N/A" with no points and the MEG of the 90th percentile has points
C20_MissingTableBreaksOrder ==
    /\ FourPercentilesResolved
    /\ call.op \in AcademicMegsOps
    /\ Falsy(alps_bands_aLevel_100_kb)
    /\ call.academic_megs.grades[100] = "N/A"
    /\ ResolvedPoints(100) = 0
    /\ ResolvedPoints(90) > 0
    /\ ResolvedPoints(90) = PointsOfOwnTable(90)


-----------------------------------------------------------------------------
(* Normalising a label that normalisation returned                         *)

\* the label the call returned, normalised again by the same backend, as get_points
\* does with the label student_coaching_data hands it (src/app.py lines 557-558)
NormalizedAgain ==
    IF call.op = "normalize_qualification_type"
    THEN normalize_qualification_type(call.result)
    ELSE kbapp_normalize_qualification_type(call.result)

\* C21: normalize_qualification_type is idempotent on its own outputs: every value it
\* returns for any input is returned unchanged when it is normalised again.
C21_IdempotentOnOutputs ==
    call.op \in {"normalize_qualification_type", "kbapp_normalize_qualification_type"}
        => NormalizedAgain = call.result

\* a subsidiary BTEC is normalised to the Subsidiary Diploma, and that label to the Diploma
C21_SubsidiaryDiplomaBecomesDiploma ==
    /\ call.op = "normalize_qualification_type"
    /\ call.exam_type_str = "BTEC Subsidiary"
    /\ call.result = "BTEC Level 3 Subsidiary Diploma"
    /\ NormalizedAgain = "BTEC Level 3 Diploma"


-----------------------------------------------------------------------------
(* Chat turn: the activities of a turn that asks for one                   *)

\* a turn of the student coach that was answered and whose message asks for an activity
ActivityRequestedTurn ==
    /\ call.op = "chat_turn"
    /\ call.answered
    /\ call.turn.user_asking_for_activity

\* the elements of the activities the turn placed in its context and its response
ElementsOfSuggested ==
    {call.turn.suggested_activities_for_response[i].vespa_element :
        i \in 1..Len(call.turn.suggested_activities_for_response)}

\* C22: in a chat turn whose message asks for an activity, at any number of earlier user
\* turns, every activity placed in the context has the element inferred from the message;
\* no activity of another element, and none at all when no element is inferred, is included.
C22_ActivitiesOfInferredElementOnly ==
    ActivityRequestedTurn =>
        IF call.turn.inferred_vespa_element_from_query = None
        THEN call.turn.suggested_activities_for_response = <<>>
        ELSE ElementsOfSuggested \subseteq {call.turn.inferred_vespa_element_from_query}

\* a first turn that asks for an activity is given one of another element than the one
\* inferred from its message, by the keywords of the message
C22_ActivityOfAnotherElement ==
    /\ ActivityRequestedTurn
    /\ call.turn.conversation_depth = 0
    /\ call.turn.inferred_vespa_element_from_query # None
    /\ call.turn.scored_activities_list # <<>>
    /\ \E element \in ElementsOfSuggested : element # call.turn.inferred_vespa_element_from_query


-----------------------------------------------------------------------------
(* Chat turns of one process, one request after the other                  *)

\* the requests one process is followed through
MaxTurns == 2

\* messages that ask for an activity and messages that do not
TurnMessages ==
    {"hello", "any activities?", "can you suggest an activity for revision practice"}

\* the knowledge files loaded in the order of the files, or none of them loaded
InitTurns ==
    /\ NoBenchmarkTables
    /\ NoFamilyTables
    /\ NoSchoolAverages
    /\ \E loaded \in BOOLEAN :
        /\ VESPA_STATEMENTS_DATA = IF loaded THEN LoadedStatements(MaxCatalogue, FALSE) ELSE NoneObj
        /\ COACHING_INSIGHTS_DATA = IF loaded THEN LoadedInsights(MaxCatalogue, FALSE) ELSE NoneObj
        /\ VESPA_ACTIVITIES_DATA = IF loaded THEN LoadedActivities(MaxCatalogue, FALSE) ELSE NoneObj
        /\ coaching_kb = IF loaded THEN Obj(CoachingQuestionsKb) ELSE NoneObj
        /\ REFLECTIVE_STATEMENTS_DATA = IF loaded THEN LoadedReflective(MaxCatalogue, FALSE) ELSE <<>>
    /\ OPENAI_API_KEY = "sk-test"
    /\ knack_chat_log = <<>>
    /\ call = NoCall

\* POST /api/v1/chat_turn of src/app.py, after any earlier request of the process: the
\* handler keeps nothing of a request but the records it saved to Knack
chat_turn_next_call ==
    /\ Len(knack_chat_log) < 2 * MaxTurns
    /\ \E current_user_message \in TurnMessages, chat_history \in Histories,
          initial_ai_context \in {NoneObj, Obj(LowContext)} :
           \E outcome \in chat_turn("5f3a", current_user_message, chat_history, initial_ai_context, KnackUpOrDown) :
               /\ call' = outcome.call
               /\ knack_chat_log' = outcome.knack_chat_log
    /\ UNCHANGED kbs

NextTurns == chat_turn_next_call

SpecTurns == InitTurns /\ [][NextTurns]_vars


-----------------------------------------------------------------------------
(* Chat turn: the conversation phase                                       *)

\* lines 1881-1908: the conversation guidance the turn appended to its system prompt
PhaseOfTurn(turn) ==
    conversation_guidance(turn.conversation_depth, turn.user_asking_for_activity,
                          turn.suggested_activities_for_response)

\* C23: the conversation phase chosen in a chat turn is a function of only that turn's
\* number of earlier user turns and its activity request: a turn and the turn before it
\* in the process that agree on the two get the same phase, whatever was retrieved for
\* them and whatever the rest of their messages and profiles contain.
C23_PhaseOfDepthAndRequestOnly ==
    [][(/\ call.op = "chat_turn"
        /\ call'.op = "chat_turn"
        /\ call'.turn.conversation_depth = call.turn.conversation_depth
        /\ call'.turn.user_asking_for_activity = call.turn.user_asking_for_activity)
       => PhaseOfTurn(call'.turn) = PhaseOfTurn(call.turn)]_vars

\* a later request of the process that asks for an activity and is found none: its
\* system prompt names no phase
C23_RequestWithoutActivityHasNoPhase ==
    /\ call.op = "chat_turn"
    /\ Len(knack_chat_log) = 2 * MaxTurns
    /\ call.turn.user_asking_for_activity
    /\ call.turn.suggested_activities_for_response = <<>>
    /\ PhaseOfTurn(call.turn) = ""
    /\ ~Contains(call.turn.messages_for_llm[1].content, "PHASE")


-----------------------------------------------------------------------------
(* Chat turns over initial contexts whose texts grow                       *)

RECURSIVE Repeated(_, _)
\* text * n
Repeated(text, n) == IF n = 0 THEN "" ELSE text \o Repeated(text, n - 1)

\* a text of n characters
TextOfLength(n) == Take(Repeated("planning my week and ", n \div 20), n)

\* the lengths of the texts the caller supplies: under, at and over the cuts of the code
OverviewLengths == {60, 200, 260}
ReflectionLengths == {60, 150, 170}
SummaryLengths == {40, 60, 200, 260}

\* the initial context of a student whose generated overview, reflection and
\* questionnaire summary have the given lengths
SizedContext(overview, reflection, summary) ==
    [LowContext EXCEPT
        !.llm_generated_insights =
            [student_overview_summary |-> TextOfLength(overview),
             suggested_student_goals |-> Obj(<<"Test yourself weekly">>),
             questionnaire_interpretation_and_reflection_summary |-> TextOfLength(summary)],
        !.student_reflections_and_goals = Obj(<< <<"rrc1_current", TextOfLength(reflection)>> >>)]

SizedContexts ==
    {Obj(SizedContext(overview, reflection, summary)) :
        overview \in OverviewLengths, reflection \in ReflectionLengths, summary \in SummaryLengths}

\* POST /api/v1/chat_turn of src/app.py with an initial context of the given sizes
chat_turn_sized_call ==
    /\ call = NoCall
    /\ \E current_user_message \in TurnMessages, chat_history \in Histories,
          initial_ai_context \in SizedContexts :
           \E outcome \in chat_turn("5f3a", current_user_message, chat_history, initial_ai_context, KnackUpOrDown) :
               /\ call' = outcome.call
               /\ knack_chat_log' = outcome.knack_chat_log
    /\ UNCHANGED kbs

NextSized == chat_turn_sized_call

SpecSized == InitTurns /\ [][NextSized]_vars


-----------------------------------------------------------------------------
(* Chat turn: the length of the context                                    *)

\* the longest excerpt the context takes of a text of the caller (line 1572)
ExcerptBudget == 200

\* len("\n".join(rag_context_parts)), line 1913
ContextLength(turn) ==
    Len(Join([i \in 1..Len(turn.rag_context_parts) |-> turn.rag_context_parts[i].text], "\n"))

\* value[:ExcerptBudget] of the value of each entry
CutEntries(entries) == [i \in 1..Len(entries) |-> <<entries[i][1], Take(entries[i][2], ExcerptBudget)>>]

\* the initial context with each text of the caller cut to the longest excerpt
CutToBudget(initial_ai_context) ==
    Obj([initial_ai_context.val EXCEPT
        !.llm_generated_insights.student_overview_summary = Take(@, ExcerptBudget),
        !.llm_generated_insights.questionnaire_interpretation_and_reflection_summary = Take(@, ExcerptBudget),
        !.student_reflections_and_goals = Obj(CutEntries(@.val))])

\* a turn that assembled a context from an initial context of the caller
ContextAssembled ==
    /\ call.op = "chat_turn"
    /\ call.answered
    /\ call.initial_ai_context \in SizedContexts

\* C24: the length of the context text assembled for one chat turn never exceeds a fixed
\* maximum that is independent of the sizes of the texts the caller supplies: the context
\* is no longer than the context of the same request with each of these texts cut to the
\* longest excerpt the code takes, so that text beyond the cut adds nothing.
C24_ContextLengthBounded ==
    ContextAssembled =>
        ContextLength(call.turn) <=
            ContextLength(chat_turn_context(call.current_user_message, call.chat_history,
                                            CutToBudget(call.initial_ai_context)))

\* the generated overview is over the cut and is in the context whole
C24_OverviewInContextWhole ==
    /\ ContextAssembled
    /\ Len(call.initial_ai_context.val.llm_generated_insights.student_overview_summary) > ExcerptBudget
    /\ \E i \in 1..Len(call.turn.rag_context_parts) :
          call.turn.rag_context_parts[i].text =
              "My Overall AI Snapshot: " \o call.initial_ai_context.val.llm_generated_insights.student_overview_summary


-----------------------------------------------------------------------------
(* School averages and their cache (src/knowledge_base/app.py)             *)

\* line 45
CACHE_TTL_SECONDS == 3600

\* lines 1585-1589: the elements averaged and their fields, in the order of the dict
vespa_elements ==
    << <<"Vision", "field_147">>, <<"Effort", "field_148">>, <<"Systems", "field_149">>,
       <<"Practice", "field_150">>, <<"Attitude", "field_151">>, <<"Overall", "field_152">> >>

RECURSIVE scores_of_field(_, _)
\* lines 1594-1608: the scores, in tenths, of the records that are dicts and carry a value
\* of the field that float() takes
scores_of_field(records, field_key) ==
    IF records = <<>> THEN <<>>
    ELSE LET record == Head(records)
             score_value == IF record.none THEN NoneV ELSE Get(record.val, field_key, NoneV)
         IN  (IF score_value # NoneV /\ Float(score_value).ok THEN <<Float(score_value).v>> ELSE <<>>)
                 \o scores_of_field(Tail(records), field_key)

RECURSIVE Sum(_)
Sum(numbers) == IF numbers = <<>> THEN 0 ELSE Head(numbers) + Sum(Tail(numbers))

\* round(sums / counts, 2) in hundredths, of a sum in tenths: to the nearest hundredth,
\* a tie to the even one
rounded_average(sum, count) ==
    LET floor == (10 * sum) \div count
        rest == (10 * sum) % count
    IN  IF 2 * rest > count \/ (2 * rest = count /\ floor % 2 = 1) THEN floor + 1 ELSE floor

\* lines 1590-1615: the average of each element in hundredths, 0 for an element no record
\* of the school has a score of
averages_of_records(records) ==
    [element \in {vespa_elements[i][1] : i \in 1..Len(vespa_elements)} |->
        LET field_key == vespa_elements[CHOOSE i \in 1..Len(vespa_elements) : vespa_elements[i][1] = element][2]
            scores == scores_of_field(records, field_key)
        IN  IF Len(scores) > 0 THEN rounded_average(Sum(scores), Len(scores)) ELSE 0]

\* a call that has not started
IdleCall == [pc |-> "idle"]

\* the calls that are over: the value was returned, or the call raised
OverPcs == {"idle", "returned", "raised"}

\* lines 1552-1554 and the entry into the lookup: a call of thread t starts
averages_call_begins(t, school_id) ==
    /\ averages_calls[t].pc \in OverPcs
    /\ averages_calls' =
          [averages_calls EXCEPT ![t] =
              IF ~Truthy(school_id)
              THEN [pc |-> "returned", school_id |-> school_id, result |-> NoneObj, from |-> "no_school_id"]
              ELSE [pc |-> "lookup", school_id |-> school_id]]
    /\ UNCHANGED <<SCHOOL_AVERAGES_CACHE, time_now>>

\* a variant that takes an entry of the age of CACHE_TTL_SECONDS for a fresh one
averages_call_looks_up_fresh_at_ttl(t) ==
    LET c == averages_calls[t]
        cached_data == IF c.school_id \in DOMAIN SCHOOL_AVERAGES_CACHE
                       THEN Obj(SCHOOL_AVERAGES_CACHE[c.school_id]) ELSE NoneObj
    IN  /\ c.pc = "lookup"
        /\ averages_calls' =
              [averages_calls EXCEPT ![t] =
                  IF cached_data.none THEN [pc |-> "fetch", school_id |-> c.school_id]
                  ELSE IF time_now - cached_data.val.timestamp <= CACHE_TTL_SECONDS
                  THEN [pc |-> "returned", school_id |-> c.school_id, result |-> Obj(cached_data.val.averages),
                        from |-> "cache", timestamp |-> cached_data.val.timestamp, read_at |-> time_now]
                  ELSE [pc |-> "expired", school_id |-> c.school_id]]
        /\ UNCHANGED <<SCHOOL_AVERAGES_CACHE, time_now>>

\* lines 1557-1562: the entry of the school is read and, when it is there, its age taken
averages_call_looks_up(t) ==
    LET c == averages_calls[t]
        cached_data == IF c.school_id \in DOMAIN SCHOOL_AVERAGES_CACHE
                       THEN Obj(SCHOOL_AVERAGES_CACHE[c.school_id]) ELSE NoneObj
    IN  /\ c.pc = "lookup"
        /\ averages_calls' =
              [averages_calls EXCEPT ![t] =
                  IF cached_data.none THEN [pc |-> "fetch", school_id |-> c.school_id]
                  ELSE IF time_now - cached_data.val.timestamp < CACHE_TTL_SECONDS
                  THEN [pc |-> "returned", school_id |-> c.school_id, result |-> Obj(cached_data.val.averages),
                        from |-> "cache", timestamp |-> cached_data.val.timestamp, read_at |-> time_now]
                  ELSE [pc |-> "expired", school_id |-> c.school_id]]
        /\ UNCHANGED <<SCHOOL_AVERAGES_CACHE, time_now>>

\* line 1564: del SCHOOL_AVERAGES_CACHE[school_id], which raises KeyError when the key is
\* not in the dict
averages_call_deletes(t) ==
    LET c == averages_calls[t]
    IN  /\ c.pc = "expired"
        /\ IF c.school_id \in DOMAIN SCHOOL_AVERAGES_CACHE
           THEN /\ SCHOOL_AVERAGES_CACHE' =
                      [k \in DOMAIN SCHOOL_AVERAGES_CACHE \ {c.school_id} |-> SCHOOL_AVERAGES_CACHE[k]]
                /\ averages_calls' = [averages_calls EXCEPT ![t] = [pc |-> "fetch", school_id |-> c.school_id]]
           ELSE /\ averages_calls' =
                      [averages_calls EXCEPT ![t] =
                          [pc |-> "raised", school_id |-> c.school_id, error |-> "KeyError"]]
                /\ UNCHANGED SCHOOL_AVERAGES_CACHE
        /\ UNCHANGED time_now

\* lines 1568-1583: the records of the school are fetched by the primary filter and, when
\* it gives none, by the fallback filter; fetched is what Knack answers to the two
averages_call_fetches(t, fetched) ==
    LET c == averages_calls[t]
        all_student_records_for_school == IF fetched[1] # <<>> THEN fetched[1] ELSE fetched[2]
    IN  /\ c.pc = "fetch"
        /\ averages_calls' =
              [averages_calls EXCEPT ![t] =
                  IF all_student_records_for_school = <<>>
                  THEN [pc |-> "returned", school_id |-> c.school_id, result |-> NoneObj, from |-> "no_records"]
                  ELSE [pc |-> "store", school_id |-> c.school_id,
                        records |-> all_student_records_for_school,
                        averages |-> averages_of_records(all_student_records_for_school)]]
        /\ UNCHANGED <<SCHOOL_AVERAGES_CACHE, time_now>>

\* lines 1618-1619: the averages are cached with the time of the clock, and returned
averages_call_stores(t) ==
    LET c == averages_calls[t]
    IN  /\ c.pc = "store"
        /\ SCHOOL_AVERAGES_CACHE' =
              [k \in DOMAIN SCHOOL_AVERAGES_CACHE \cup {c.school_id} |->
                  IF k = c.school_id THEN [averages |-> c.averages, timestamp |-> time_now]
                  ELSE SCHOOL_AVERAGES_CACHE[k]]
        /\ averages_calls' =
              [averages_calls EXCEPT ![t] =
                  [pc |-> "returned", school_id |-> c.school_id, result |-> Obj(c.averages),
                   from |-> "fetch", records |-> c.records, stored_at |-> time_now]]
        /\ UNCHANGED time_now


-----------------------------------------------------------------------------
(* School averages: the calls                                              *)

\* the threads of the server that may be in get_school_vespa_averages at once
MaxThreads == 2

\* the clock is followed up to this time
MaxTime == 7200

\* the school connection of the student, missing or told
SchoolIds == {None, "school_a", "school_b"}

StudentRecord(vision, effort) ==
    Obj(("field_147" :> vision) @@ ("field_148" :> effort) @@ ("field_149" :> NumV(40))
            @@ ("field_150" :> StrV("n/a")) @@ ("field_152" :> NoneV))

\* what one paginated fetch of object_10 gives: no record, or the records of the school
\* at the time of the fetch
FetchedRecords ==
    {<<>>,
     <<StudentRecord(NumV(50), NumV(60)), StudentRecord(NumV(75), StrV("7"))>>,
     <<StudentRecord(NumV(50), NumV(60)), NoneObj, StudentRecord(NumV(80), NoneV),
       StudentRecord(StrV("6.5"), NumV(30))>>}

\* the state after loading, with the given number of threads
InitAveragesOf(threads) ==
    /\ NoChatKnowledge
    /\ NoBenchmarkTables
    /\ NoFamilyTables
    /\ call = NoCall
    /\ SCHOOL_AVERAGES_CACHE = <<>>
    /\ time_now = 0
    /\ averages_calls = [t \in 1..threads |-> IdleCall]

\* time passes
clock_advances ==
    /\ time_now < MaxTime
    /\ time_now' = time_now + CACHE_TTL_SECONDS \div 2
    /\ UNCHANGED <<knowledge, knack_chat_log, call, SCHOOL_AVERAGES_CACHE, averages_calls>>

averages_step(t) ==
    \/ averages_call_looks_up(t)
    \/ averages_call_deletes(t)
    \/ \E fetched \in FetchedRecords \X FetchedRecords : averages_call_fetches(t, fetched)
    \/ averages_call_stores(t)

\* one call after the other, for any school
get_school_vespa_averages_call ==
    /\ \E school_id \in SchoolIds : averages_call_begins(1, school_id)
    /\ UNCHANGED <<knowledge, knack_chat_log, call>>

get_school_vespa_averages_step ==
    /\ averages_step(1)
    /\ UNCHANGED <<knowledge, knack_chat_log, call>>

\* get_school_vespa_averages of src/app.py, lines 424-484: the records are fetched at every
\* call and nothing is kept
student_get_school_vespa_averages_call ==
    /\ \E school_id \in SchoolIds, fetched \in FetchedRecords \X FetchedRecords :
          LET all_student_records_for_school == IF fetched[1] # <<>> THEN fetched[1] ELSE fetched[2]
          IN  call' = [op |-> "get_school_vespa_averages", school_id |-> school_id,
                       result |-> IF ~Truthy(school_id) \/ all_student_records_for_school = <<>>
                                  THEN NoneObj
                                  ELSE Obj(averages_of_records(all_student_records_for_school))]
    /\ UNCHANGED <<knowledge, knack_chat_log, SCHOOL_AVERAGES_CACHE, time_now, averages_calls>>

InitAverages == InitAveragesOf(1)

NextAverages ==
    \/ get_school_vespa_averages_call
    \/ get_school_vespa_averages_step
    \/ student_get_school_vespa_averages_call
    \/ clock_advances

SpecAverages == InitAverages /\ [][NextAverages]_vars

\* calls of several threads for the same school, interleaved at the reads and writes of
\* the cache and at the fetch
concurrent_averages_call ==
    /\ \E t \in DOMAIN averages_calls : averages_call_begins(t, "school_a")
    /\ UNCHANGED <<knowledge, knack_chat_log, call>>

concurrent_averages_step ==
    /\ \E t \in DOMAIN averages_calls : averages_step(t)
    /\ UNCHANGED <<knowledge, knack_chat_log, call>>

InitConcurrentAverages == InitAveragesOf(MaxThreads)

NextConcurrentAverages == concurrent_averages_call \/ concurrent_averages_step \/ clock_advances

SpecConcurrentAverages == InitConcurrentAverages /\ [][NextConcurrentAverages]_vars


-----------------------------------------------------------------------------
(* School averages: concurrent calls for one school                        *)

\* the value a call returned is the averages of the records of some fetch, or None
ReturnedAveragesOrNone(c) ==
    IF c.result.none THEN c.from = "no_records"
    ELSE \E records \in FetchedRecords \ {<<>>} : c.result.val = averages_of_records(records)

\* C25: for every interleaving of concurrent get_school_vespa_averages calls for the
\* same school, whether they start while the cached entry is fresh, just expired or
\* being refreshed by another call, every call completes without raising and returns
\* the averages computed from a record fetch, or None when the fetch gives no records.
C25_NoCallRaises ==
    \A t \in DOMAIN averages_calls :
        /\ averages_calls[t].pc # "raised"
        /\ averages_calls[t].pc = "returned" => ReturnedAveragesOrNone(averages_calls[t])

\* two calls found the same expired entry; one deleted it and went on to fetch, the
\* other's delete raised KeyError
C25_SecondDeleteRaises ==
    \E t, u \in DOMAIN averages_calls :
        /\ t # u
        /\ averages_calls[t].pc = "raised"
        /\ averages_calls[t].error = "KeyError"
        /\ averages_calls[u].pc \in {"fetch", "store"}
        /\ averages_calls[u].school_id = averages_calls[t].school_id


-----------------------------------------------------------------------------
(* School averages: the time an entry of the cache lives                   *)

\* the call of the step, before and after it
CallBefore == averages_calls[1]
CallAfter == averages_calls'[1]

\* the step is the lookup of a call that returns the cached averages
ReturnsCached ==
    /\ CallBefore.pc = "lookup"
    /\ CallAfter.pc = "returned"
    /\ CallAfter.from = "cache"

\* the step writes the entry of school k
WritesEntry(k) ==
    /\ k \in DOMAIN SCHOOL_AVERAGES_CACHE'
    /\ k \notin DOMAIN SCHOOL_AVERAGES_CACHE \/ SCHOOL_AVERAGES_CACHE'[k] # SCHOOL_AVERAGES_CACHE[k]

\* C26: over any sequence of get_school_vespa_averages calls and clock advances, a call
\* returns a cached value only if that value was stored for the same school less than
\* CACHE_TTL_SECONDS earlier; an entry of that age or older is removed and the averages
\* are computed from a new fetch; and a fetch that gives no records stores nothing.
C26_CachedOnlyWithinTtl ==
    [][/\ ReturnsCached =>
            /\ CallAfter.school_id \in DOMAIN SCHOOL_AVERAGES_CACHE
            /\ CallAfter.result = Obj(SCHOOL_AVERAGES_CACHE[CallAfter.school_id].averages)
            /\ time_now - SCHOOL_AVERAGES_CACHE[CallAfter.school_id].timestamp < CACHE_TTL_SECONDS
       /\ \A k \in DOMAIN SCHOOL_AVERAGES_CACHE' :
            WritesEntry(k) =>
                /\ CallBefore.pc = "store"
                /\ CallBefore.school_id = k
                /\ CallBefore.records # <<>>
                /\ SCHOOL_AVERAGES_CACHE'[k] =
                      [averages |-> averages_of_records(CallBefore.records), timestamp |-> time_now]
       /\ (/\ CallBefore.pc = "lookup"
           /\ CallBefore.school_id \in DOMAIN SCHOOL_AVERAGES_CACHE
           /\ time_now - SCHOOL_AVERAGES_CACHE[CallBefore.school_id].timestamp >= CACHE_TTL_SECONDS
           /\ CallAfter # CallBefore)
              => CallAfter.pc = "expired"
       /\ (CallBefore.pc = "expired" /\ CallAfter # CallBefore)
              => /\ CallAfter.pc = "fetch"
                 /\ CallBefore.school_id \notin DOMAIN SCHOOL_AVERAGES_CACHE'
       /\ (CallBefore.pc = "fetch" /\ CallAfter.pc = "returned")
              => /\ CallAfter.result = NoneObj
                 /\ SCHOOL_AVERAGES_CACHE' = SCHOOL_AVERAGES_CACHE
      ]_vars

\* a call returned the averages cached half the time to live earlier, after an older
\* entry of the school had expired and was replaced
C26_CachedReturnedAfterRefresh ==
    /\ averages_calls[1].pc = "returned"
    /\ averages_calls[1].from = "cache"
    /\ averages_calls[1].timestamp >= CACHE_TTL_SECONDS
    /\ averages_calls[1].read_at - averages_calls[1].timestamp = CACHE_TTL_SECONDS \div 2


-----------------------------------------------------------------------------
(* Paginated fetch of the records of a Knack object                        *)

\* rows_per_page of every page request (1000 in the source), scaled to the pages followed
RowsPerPage == 2

\* a JSON value of a response by its Python type: None, a list or a dict
JsonNone == [type |-> "NoneType"]
JsonList(items) == [type |-> "list", val |-> items]
JsonDict(fields) == [type |-> "dict", val |-> fields]
\* {} and a list whose items are not looked at
EmptyJsonDict == [type |-> "dict"]
SomeJsonList == [type |-> "list"]

\* response_data and isinstance(response_data, dict)
dict_with_keys(response_data) == response_data.type = "dict" /\ "val" \in DOMAIN response_data

\* int(x) of a JSON number (in tenths) or string: a number is cut to its whole part, a
\* string must be made of digits only
IntOf(x) ==
    CASE x.t = "num" -> [ok |-> TRUE, v |-> x.n \div 10]
      [] x.t = "str" -> IF Strip(x.s) # "" /\ AllDigits(Strip(x.s))
                        THEN [ok |-> TRUE, v |-> DigitsVal(Strip(x.s))] ELSE [ok |-> FALSE]
      [] OTHER -> [ok |-> FALSE]

\* the call as it enters the loop (src/app.py lines 382-388, src/knowledge_base/app.py
\* lines 1622-1630)
paginated_fetch_begun(op, max_pages) ==
    [op |-> op, pc |-> "loop", max_pages |-> max_pages, current_page |-> 1, total_pages |-> 1,
     all_records |-> <<>>, requested |-> <<>>, pages |-> <<>>]

\* the call when the loop is left: all_records is returned
paginated_fetch_returned(c) == [c EXCEPT !.pc = "returned"]

\* a variant that asks for the same page again after a full page
paginated_fetch_after_page_again(c, response) ==
    IF ~dict_with_keys(response) THEN paginated_fetch_returned(c)
    ELSE LET records_on_page == Get(response.val, "records", JsonList(<<>>))
             new_total_pages == Get(response.val, "total_pages", NoneV)
         IN  IF records_on_page.type # "list" THEN paginated_fetch_returned(c)
             ELSE LET total_pages == IF new_total_pages # NoneV /\ IntOf(new_total_pages).ok
                                     THEN IntOf(new_total_pages).v ELSE c.total_pages
                      fetched == [c EXCEPT !.all_records = @ \o records_on_page.val,
                                           !.pages = Append(@, records_on_page.val),
                                           !.total_pages = total_pages]
                  IN  IF \/ records_on_page.val = <<>>
                         \/ Len(records_on_page.val) < RowsPerPage
                         \/ c.current_page >= total_pages
                      THEN paginated_fetch_returned(fetched)
                      ELSE fetched

\* the body of the loop after get_knack_record answered (src/app.py lines 392-418,
\* src/knowledge_base/app.py lines 1636-1667)
paginated_fetch_after_page(c, response) ==
    IF ~dict_with_keys(response) THEN paginated_fetch_returned(c)
    ELSE LET records_on_page == Get(response.val, "records", JsonList(<<>>))
             new_total_pages == Get(response.val, "total_pages", NoneV)
         IN  IF records_on_page.type # "list" THEN paginated_fetch_returned(c)
             ELSE LET total_pages == IF new_total_pages # NoneV /\ IntOf(new_total_pages).ok
                                     THEN IntOf(new_total_pages).v ELSE c.total_pages
                      fetched == [c EXCEPT !.all_records = @ \o records_on_page.val,
                                           !.pages = Append(@, records_on_page.val),
                                           !.total_pages = total_pages]
                  IN  IF \/ records_on_page.val = <<>>
                         \/ Len(records_on_page.val) < RowsPerPage
                         \/ c.current_page >= total_pages
                      THEN paginated_fetch_returned(fetched)
                      ELSE [fetched EXCEPT !.current_page = @ + 1]

\* one turn of `while current_page <= total_pages and current_page <= max_pages`: the
\* loop is left, or the page is requested and Knack gives one of the responses
paginated_fetch_turn(c, responses) ==
    IF ~(c.current_page <= c.total_pages /\ c.current_page <= c.max_pages)
    THEN {paginated_fetch_returned(c)}
    ELSE {paginated_fetch_after_page([c EXCEPT !.requested = Append(@, c.current_page)], response) :
             response \in responses}


-----------------------------------------------------------------------------
(* Paginated fetch: the calls                                              *)

\* the most pages a caller allows (20 when it does not say)
MaxPagesAllowed == 3

\* the most pages Knack says there are
MaxTotalPages == 4

\* the records of one page: none, some, or as many as were asked for
PagesOfRecords == {<<>>, <<"rec">>} \cup {[i \in 1..RowsPerPage |-> "rec"]}

\* what Knack says of the number of pages: nothing, a number, a number as text, text
\* that is no number, a number with a fraction
TotalPagesValues ==
    {NoneV, StrV("many"), StrV("2"), NumV(25)} \cup {NumV(10 * n) : n \in 0..MaxTotalPages}

\* what get_knack_record gives for one page: None when the request failed, an empty dict,
\* a list, a dict without records, with records that are no list, or a page of records
PageResponses ==
    {JsonNone, EmptyJsonDict, SomeJsonList,
     JsonDict([total_pages |-> NumV(20)]),
     JsonDict([records |-> JsonNone, total_pages |-> NumV(20)])}
    \cup {JsonDict([records |-> JsonList(records), total_pages |-> total_pages]) :
             records \in PagesOfRecords, total_pages \in TotalPagesValues}
    \cup {JsonDict([records |-> JsonList(records)]) : records \in PagesOfRecords}

InitPages == InitNormalize

\* get_all_knack_records of src/app.py is called
get_all_knack_records_call ==
    /\ call = NoCall
    /\ \E max_pages \in 1..MaxPagesAllowed :
          call' = paginated_fetch_begun("get_all_knack_records", max_pages)
    /\ UNCHANGED <<kbs, knack_chat_log>>

\* get_all_knack_records of src/knowledge_base/app.py is called
kbapp_get_all_knack_records_call ==
    /\ call = NoCall
    /\ \E max_pages \in 1..MaxPagesAllowed :
          call' = paginated_fetch_begun("kbapp_get_all_knack_records", max_pages)
    /\ UNCHANGED <<kbs, knack_chat_log>>

\* the loop of either takes one turn
get_all_knack_records_turn ==
    /\ call.op \in {"get_all_knack_records", "kbapp_get_all_knack_records"}
    /\ call.pc = "loop"
    /\ call' \in paginated_fetch_turn(call, PageResponses)
    /\ UNCHANGED <<kbs, knack_chat_log>>

NextPages == get_all_knack_records_call \/ kbapp_get_all_knack_records_call \/ get_all_knack_records_turn

\* a call that was made goes on until it returns
SpecPages == InitPages /\ [][NextPages]_vars /\ WF_vars(NextPages)


-----------------------------------------------------------------------------
(* Paginated fetch: properties                                             *)

PagedOps == {"get_all_knack_records", "kbapp_get_all_knack_records"}

\* C27: get_all_knack_records terminates for every sequence of server responses, also
\* when the number of pages changes or grows on each page and every page is full: it
\* requests at most max_pages pages, the pages 1, 2, 3, ... in this order and none twice,
\* stops at the first missing or malformed response, and returns exactly the records of
\* the pages fetched so far, in the order they were fetched.
C27_PaginationTerminates ==
    /\ [](call.op \in PagedOps =>
            /\ Len(call.requested) <= call.max_pages
            /\ call.requested = [i \in 1..Len(call.requested) |-> i]
            /\ Len(call.pages) <= Len(call.requested)
            /\ call.pc = "loop" => Len(call.pages) = Len(call.requested)
            /\ call.all_records = Flatten(call.pages))
    /\ <>(call.op \in PagedOps /\ call.pc = "returned")

\* every page allowed was asked for and was full, with Knack saying there are more, and
\* the call returned the records of them all
C27_StoppedAtMaxPages ==
    /\ call.op \in PagedOps
    /\ call.pc = "returned"
    /\ call.max_pages = MaxPagesAllowed
    /\ Len(call.requested) = MaxPagesAllowed
    /\ call.total_pages > MaxPagesAllowed
    /\ Len(call.all_records) = MaxPagesAllowed * RowsPerPage

-----------------------------------------------------------------------------
(* Academic profile lookup                                                 *)

\* field_3080 (Sub1) to field_3094 (Sub15)
SubjectFieldIds ==
    <<"field_3080", "field_3081", "field_3082", "field_3083", "field_3084",
      "field_3085", "field_3086", "field_3087", "field_3088", "field_3089",
      "field_3090", "field_3091", "field_3092", "field_3093", "field_3094">>

\* texts a subject field holds
MathsJson == "{\"subject\": \"Maths\", \"currentGrade\": \"B\", \"examType\": \"A Level\"}"
ArtJson == " {\"subject_name\": \"Art\", \"cg\": \"C\", \"tg\": \"A\"}"
HistoryJson == "{\"subject\": \"\", \"name\": \"History\", \"effort_grade\": \"2\"}"
NullNameJson == "{\"name\": null, \"currentGrade\": \"A\"}"
NoNameJson == "{\"currentGrade\": \"A\"}"
CutJson == "{\"subject\": \"Maths\""
PlainText == "Maths"

\* json.loads of these texts: the dict (null is None), or JSONDecodeError
json_loads(text) ==
    CASE text = MathsJson ->
           [ok |-> TRUE, data |-> [subject |-> "Maths", currentGrade |-> "B", examType |-> "A Level"]]
      [] text = ArtJson ->
           [ok |-> TRUE, data |-> [subject_name |-> "Art", cg |-> "C", tg |-> "A"]]
      [] text = HistoryJson ->
           [ok |-> TRUE, data |-> [subject |-> "", name |-> "History", effort_grade |-> "2"]]
      [] text = NullNameJson ->
           [ok |-> TRUE, data |-> [name |-> None, currentGrade |-> "A"]]
      [] text = NoNameJson ->
           [ok |-> TRUE, data |-> [currentGrade |-> "A"]]
      [] OTHER -> [ok |-> FALSE]

RECURSIVE or_get(_, _, _)
\* d.get(k1) or d.get(k2) or ... or d.get(kn, "N/A")
or_get(d, keys, last) ==
    IF keys = <<>> THEN Get(d, last, "N/A")
    ELSE IF Truthy(Get(d, Head(keys), None)) THEN d[Head(keys)]
    ELSE or_get(d, Tail(keys), last)

summary_entry(subject_data) ==
    [subject |-> or_get(subject_data, <<"subject", "subject_name", "subjectName">>, "name"),
     currentGrade |-> or_get(subject_data, <<"currentGrade", "current_grade", "cg">>, "currentgrade"),
     targetGrade |-> or_get(subject_data, <<"targetGrade", "target_grade", "tg">>, "targetgrade"),
     effortGrade |-> or_get(subject_data, <<"effortGrade", "effort_grade", "eg">>, "effortgrade"),
     examType |-> or_get(subject_data, <<"examType", "exam_type">>, "qualificationType")]

\* the entries one parsed subject adds to subjects_summary
subject_entries(entry) ==
    IF entry.subject # "N/A" /\ entry.subject # None THEN <<entry>> ELSE <<>>

\* the value of a subject field is neither None, nor empty, nor a string: the text that
\* is logged of it takes subject_json_str[:100], which raises TypeError for a number
subject_value_raises(subject_json_str) == subject_json_str.t = "num" /\ subject_json_str.n # 0

\* the body of the loop for the value of one subject field
subject_of_value(subject_json_str) ==
    IF /\ subject_json_str.t = "str"
       /\ subject_json_str.s # ""
       /\ StartsWith(Strip(subject_json_str.s), "{")
       /\ json_loads(subject_json_str.s).ok
    THEN subject_entries(summary_entry(json_loads(subject_json_str.s).data))
    ELSE <<>>

\* the value of a subject field: the field, or its _raw field when the field is None
subject_field_value(fields, field_id) ==
    IF Get(fields, field_id, NoneV) = NoneV THEN Get(fields, field_id \o "_raw", NoneV)
    ELSE fields[field_id]

RECURSIVE subjects_of_fields(_, _)
\* subjects_summary after the loop over the subject fields
subjects_of_fields(fields, field_ids) ==
    IF field_ids = <<>> THEN <<>>
    ELSE subject_of_value(subject_field_value(fields, Head(field_ids)))
            \o subjects_of_fields(fields, Tail(field_ids))

\* what parse_subjects_from_profile_record gives when no subject was parsed
NoSubjectsParsed ==
    [subject |-> "No academic subjects parsed from profile.", currentGrade |-> "N/A",
     targetGrade |-> "N/A", effortGrade |-> "N/A", examType |-> "N/A"]
kbapp_NoSubjectsParsed ==
    [subject |-> "No academic subjects parsed from profile.", currentGrade |-> "N/A",
     targetGrade |-> "N/A", effortGrade |-> "N/A"]

subjects_or_default(subjects_summary, default) ==
    IF subjects_summary = <<>> THEN <<default>> ELSE subjects_summary

\* the loop over the subject fields raises
parse_subjects_raises(academic_profile_record) ==
    /\ dict_with_keys(academic_profile_record)
    /\ \E i \in 1..Len(SubjectFieldIds) :
          subject_value_raises(subject_field_value(academic_profile_record.val, SubjectFieldIds[i]))

\* src/app.py parse_subjects_from_profile_record, lines 217-260 (src/knowledge_base/app.py
\* lines 428-470 with its own default)
parse_subjects_from_profile_record(academic_profile_record, default) ==
    IF ~dict_with_keys(academic_profile_record) THEN <<>>
    ELSE subjects_or_default(subjects_of_fields(academic_profile_record.val, SubjectFieldIds),
                             default)

\* the records of a response that is a dict with a list of records, [] otherwise
temp_profiles_list(response) ==
    IF /\ dict_with_keys(response)
       /\ "records" \in DOMAIN response.val
       /\ response.val.records.type = "list"
    THEN response.val.records.val ELSE <<>>

NoProfile == [outcome |-> "none"]
ProfileRaised == [outcome |-> "raised"]

\* a variant that takes the record whatever was parsed from it
profile_of_subjects_whatever(record, subjects_summary) ==
    [outcome |-> "found", subjects |-> subjects_summary, record |-> record]

\* the record is used when its subjects are more than the default of the parse
profile_of_subjects(record, subjects_summary) ==
    IF \/ subjects_summary = <<>>
       \/ /\ Len(subjects_summary) = 1
          /\ StartsWith(subjects_summary[1].subject, "No academic subjects")
    THEN NoProfile
    ELSE [outcome |-> "found", subjects |-> subjects_summary, record |-> record]

\* what one attempt makes of the response to its query
profile_attempt(response, default) ==
    IF temp_profiles_list(response) = <<>> THEN NoProfile
    ELSE IF temp_profiles_list(response)[1].type # "dict" THEN NoProfile
    ELSE IF parse_subjects_raises(temp_profiles_list(response)[1]) THEN ProfileRaised
    ELSE profile_of_subjects(temp_profiles_list(response)[1],
            parse_subjects_from_profile_record(temp_profiles_list(response)[1], default))

AcademicProfileNotFound ==
    [subjects |-> <<[subject |-> "Academic profile not found by any method.",
                     currentGrade |-> "N/A", targetGrade |-> "N/A", effortGrade |-> "N/A",
                     examType |-> "N/A"]>>,
     profile_record |-> JsonNone]

\* the call returns what the attempt found, or the default, or is left by the exception
\* of the parse
academic_profile_returned(c, attempt) ==
    CASE attempt.outcome = "found" ->
           [c EXCEPT !.pc = "returned",
                     !.result = [subjects |-> attempt.subjects, profile_record |-> attempt.record]]
      [] attempt.outcome = "none" -> [c EXCEPT !.pc = "returned", !.result = AcademicProfileNotFound]
      [] attempt.outcome = "raised" -> [c EXCEPT !.pc = "raised"]

\* the call after get_knack_record answered a query on this field
academic_profile_asked(c, responses, field) ==
    [c EXCEPT !.queries = Append(@, field), !.answers = Append(@, responses[field])]

\* Attempt 3: by the name of the student
academic_profile_by_name(c, responses, default) ==
    IF Truthy(c.student_name_for_fallback) /\ c.student_name_for_fallback # "N/A"
    THEN academic_profile_returned(academic_profile_asked(c, responses, "field_3066"),
                                   profile_attempt(responses["field_3066"], default))
    ELSE academic_profile_returned(c, NoProfile)

\* Attempt 2 after its last query, on this field, was answered
academic_profile_by_connection_answered(c, responses, default, field) ==
    IF profile_attempt(responses[field], default).outcome # "none"
    THEN academic_profile_returned(c, profile_attempt(responses[field], default))
    ELSE academic_profile_by_name(c, responses, default)

\* Attempt 2: by the account connection, raw and then not raw
academic_profile_by_connection(c, responses, default) ==
    IF Truthy(c.actual_student_obj3_id)
    THEN IF temp_profiles_list(responses["field_3070_raw"]) = <<>>
         THEN academic_profile_by_connection_answered(
                  academic_profile_asked(academic_profile_asked(c, responses, "field_3070_raw"),
                                         responses, "field_3070"),
                  responses, default, "field_3070")
         ELSE academic_profile_by_connection_answered(
                  academic_profile_asked(c, responses, "field_3070_raw"),
                  responses, default, "field_3070_raw")
    ELSE academic_profile_by_name(c, responses, default)

\* Attempt 1: by the user id text
academic_profile_by_user_id(c, responses, default) ==
    IF Truthy(c.actual_student_obj3_id)
    THEN IF profile_attempt(responses["field_3064"], default).outcome # "none"
         THEN academic_profile_returned(academic_profile_asked(c, responses, "field_3064"),
                                        profile_attempt(responses["field_3064"], default))
         ELSE academic_profile_by_connection(academic_profile_asked(c, responses, "field_3064"),
                                             responses, default)
    ELSE academic_profile_by_connection(c, responses, default)

\* src/app.py get_academic_profile, lines 263-362 (src/knowledge_base/app.py lines 325-424):
\* responses is what get_knack_record answers to a query on each field
get_academic_profile(op, actual_student_obj3_id, student_name_for_fallback, responses, default) ==
    academic_profile_by_user_id(
        [op |-> op, pc |-> "called", actual_student_obj3_id |-> actual_student_obj3_id,
         student_name_for_fallback |-> student_name_for_fallback,
         queries |-> <<>>, answers |-> <<>>,
         result |-> [subjects |-> <<>>, profile_record |-> JsonNone]],
        responses, default)

-----------------------------------------------------------------------------
(* Academic profile lookup: the calls                                      *)

\* the fields get_academic_profile filters on
QueryFields == {"field_3064", "field_3070_raw", "field_3070", "field_3066"}

NotADict == [type |-> "str"]
OneSubjectRecord ==
    JsonDict([id |-> StrV("rec1"), field_3066 |-> StrV("Ann Lee"), field_3080 |-> StrV(MathsJson)])
TwoSubjectsRecord ==
    JsonDict([id |-> StrV("rec2"), field_3080 |-> StrV(PlainText),
              field_3081_raw |-> StrV(ArtJson), field_3082 |-> StrV(NullNameJson),
              field_3094 |-> StrV(HistoryJson)])
NoSubjectRecord ==
    JsonDict([id |-> StrV("rec3"), field_3080 |-> StrV(NoNameJson), field_3081 |-> StrV(CutJson),
              field_3082 |-> NumV(0), field_3082_raw |-> StrV(MathsJson),
              field_3083 |-> StrV("")])
NumberInSubjectRecord ==
    JsonDict([id |-> StrV("rec4"), field_3080 |-> StrV(MathsJson), field_3081 |-> NumV(70)])

\* what get_knack_record answers: None when the request failed, a dict without records,
\* with records that are no list, with no record, or with records; a subject field of a
\* record holds a text, or a number when the field was not set up as text
ProfileResponses ==
    {JsonNone,
     JsonDict([total_pages |-> NumV(10)]),
     JsonDict([records |-> JsonNone])}
    \cup {JsonDict([records |-> JsonList(records)]) :
            records \in {<<>>, <<NotADict, OneSubjectRecord>>, <<EmptyJsonDict>>,
                         <<NoSubjectRecord>>, <<TwoSubjectsRecord, NoSubjectRecord>>,
                         <<OneSubjectRecord>>, <<NumberInSubjectRecord>>}}

StudentObj3Ids == {None, "user_1"}
StudentNames == {None, "N/A", "Ann Lee"}

InitProfile == InitNormalize

\* get_academic_profile of src/app.py is called
get_academic_profile_call ==
    /\ call = NoCall
    /\ \E id \in StudentObj3Ids, name \in StudentNames, responses \in [QueryFields -> ProfileResponses] :
          call' = get_academic_profile("get_academic_profile", id, name, responses,
                                       NoSubjectsParsed)
    /\ UNCHANGED <<kbs, knack_chat_log>>

\* get_academic_profile of src/knowledge_base/app.py is called
kbapp_get_academic_profile_call ==
    /\ call = NoCall
    /\ \E id \in StudentObj3Ids, name \in StudentNames, responses \in [QueryFields -> ProfileResponses] :
          call' = get_academic_profile("kbapp_get_academic_profile", id, name, responses,
                                       kbapp_NoSubjectsParsed)
    /\ UNCHANGED <<kbs, knack_chat_log>>

NextProfile == get_academic_profile_call \/ kbapp_get_academic_profile_call

SpecProfile == InitProfile /\ [][NextProfile]_vars

-----------------------------------------------------------------------------
(* Academic profile lookup: properties                                     *)

ProfileOps == {"get_academic_profile", "kbapp_get_academic_profile"}

\* the place of a query in the order of the strategies
StrategyRank(field) ==
    CASE field = "field_3064" -> 1
      [] field = "field_3070_raw" -> 2
      [] field = "field_3070" -> 3
      [] field = "field_3066" -> 4

\* the subjects of an entry list that are subjects of the student
RealSubjects(subjects) ==
    {i \in 1..Len(subjects) :
        /\ ~StartsWith(subjects[i].subject, "No academic subjects")
        /\ ~StartsWith(subjects[i].subject, "Academic profile not found")}

\* the first record of the answer is a profile with a subject of the student
GivesProfile(answer) ==
    /\ temp_profiles_list(answer) # <<>>
    /\ temp_profiles_list(answer)[1].type = "dict"
    /\ ~parse_subjects_raises(temp_profiles_list(answer)[1])
    /\ RealSubjects(parse_subjects_from_profile_record(temp_profiles_list(answer)[1],
                                                       NoSubjectsParsed)) # {}

\* the first record of the answer cannot be parsed
Unparsable(answer) ==
    /\ temp_profiles_list(answer) # <<>>
    /\ temp_profiles_list(answer)[1].type = "dict"
    /\ parse_subjects_raises(temp_profiles_list(answer)[1])

\* C28: get_academic_profile asks by user id text, then by account connection (raw, and
\* not raw only when raw gave no records), then by student name, in this order; it
\* returns at the first answer whose first record parses to a subject and asks nothing
\* after it (nor after a record whose parse raises); and whenever it returns, the returned
\* record is not null exactly when the returned subjects hold a subject of the student,
\* the result being the "not found" default otherwise.
C28_LookupOrder ==
    call.op \in ProfileOps =>
        /\ \A i, j \in 1..Len(call.queries) :
              i < j => StrategyRank(call.queries[i]) < StrategyRank(call.queries[j])
        /\ \A i \in 1..Len(call.queries) :
              call.queries[i] = "field_3070" =>
                  /\ i > 1
                  /\ call.queries[i - 1] = "field_3070_raw"
                  /\ temp_profiles_list(call.answers[i - 1]) = <<>>
        /\ \A i \in 1..Len(call.queries) :
              /\ call.queries[i] = "field_3070_raw" /\ temp_profiles_list(call.answers[i]) = <<>>
                    => i < Len(call.queries) /\ call.queries[i + 1] = "field_3070"
              /\ Unparsable(call.answers[i]) => i = Len(call.queries) /\ call.pc = "raised"
              /\ GivesProfile(call.answers[i]) =>
                    /\ i = Len(call.queries)
                    /\ call.pc = "returned"
                    /\ call.result.profile_record = temp_profiles_list(call.answers[i])[1]
                    /\ call.result.subjects =
                          parse_subjects_from_profile_record(call.result.profile_record,
                                                             NoSubjectsParsed)
        /\ call.pc = "returned" =>
              /\ call.result.profile_record # JsonNone <=> RealSubjects(call.result.subjects) # {}
              /\ call.result.profile_record # JsonNone =>
                    call.queries # <<>> /\ GivesProfile(call.answers[Len(call.queries)])
              /\ call.result.profile_record = JsonNone => call.result = AcademicProfileNotFound
        /\ call.pc = "raised" => call.queries # <<>> /\ Unparsable(call.answers[Len(call.queries)])
        /\ (\E i \in 1..Len(call.queries) : call.queries[i] = "field_3064") = Truthy(call.actual_student_obj3_id)
        /\ (\E i \in 1..Len(call.queries) : call.queries[i] = "field_3070_raw") =
              (/\ Truthy(call.actual_student_obj3_id)
               /\ ~GivesProfile(call.answers[1])
               /\ ~Unparsable(call.answers[1]))

\* the user id text and the raw connection gave nothing, the connection gave a record
\* without subjects, and the profile was found by name: four queries, the last one used
C28_FoundByNameAfterAllOthers ==
    /\ call.op \in ProfileOps
    /\ call.queries = <<"field_3064", "field_3070_raw", "field_3070", "field_3066">>
    /\ temp_profiles_list(call.answers[3]) # <<>>
    /\ call.pc = "returned"
    /\ call.result.profile_record = TwoSubjectsRecord
    /\ Len(call.result.subjects) = 2

-----------------------------------------------------------------------------
(* The insights of a student: calls of the language model and keys returned *)

\* C29: generate_student_insights_with_llm calls the language model at most 2 times in
\* one invocation, never raises, and in every outcome (no API key, a call that fails on
\* the first or on both attempts, an answer that is no JSON, an answer that lacks keys,
\* success) returns a mapping that has all the seven expected keys.
C29_TwoCallsAtMostAndSevenKeys ==
    call.op = "generate_student_insights_with_llm" =>
        /\ call.llm_calls <= 2
        /\ DOMAIN call.insights = expected_keys_student

\* no API key is set: the language model is not called and the mapping returned has
\* neither academic_quote nor academic_performance_ai_summary
C29_NotConfiguredLacksTwoKeys ==
    /\ call.op = "generate_student_insights_with_llm"
    /\ ~Truthy(OPENAI_API_KEY)
    /\ call.llm_calls = 0
    /\ expected_keys_student \ DOMAIN call.insights =
          {"academic_quote", "academic_performance_ai_summary"}

-----------------------------------------------------------------------------
(* chat_turn: what is saved and when                                       *)

\* what Knack may do with the two messages of a request: take each or not
KnackUps == BOOLEAN \X BOOLEAN

\* POST /api/v1/chat_turn of src/app.py, Knack taking or refusing each message
chat_turn_saving_call ==
    /\ call = NoCall
    /\ \E student_object3_id \in StudentIds,
          current_user_message \in {None, "hello", "can you suggest an activity for revision practice"},
          initial_ai_context \in {NoneObj, Obj(LowContext)} :
           \E outcome \in chat_turn(student_object3_id, current_user_message, <<>>, initial_ai_context,
                                    KnackUps) :
               /\ call' = outcome.call
               /\ knack_chat_log' = outcome.knack_chat_log
    /\ UNCHANGED kbs

NextSaving == chat_turn_saving_call

SpecSaving == InitChat /\ [][NextSaving]_vars

-----------------------------------------------------------------------------
(* chat_turn: properties of what is saved                                  *)

\* the places in the events of the call of the events of this kind by this author
EventsOf(event, author) ==
    {i \in 1..Len(call.events) : call.events[i].event = event /\ call.events[i].author = author}

LlmEvents == {i \in 1..Len(call.events) : call.events[i].event = "llm"}

NotConfiguredText ==
    "I am currently unable to respond (AI not configured). Your message has been logged."

====
